---- MODULE Spec2Model ----
(***************************************************************************)
(* Model of the coordination substrate of rusagent:                        *)
(*   - TaskQueue      (src/multi_agent/coordination/task_queue.rs)         *)
(*   - AgentRegistry  (src/multi_agent/registry/agent_registry.rs)         *)
(*   - MessageBus     (src/multi_agent/communication/message_bus.rs)       *)
(*   - AgentManager   (src/multi_agent/manager/agent_manager.rs)           *)
(*   - MemoryPool     (src/shared/memory_pool.rs)                          *)
(*   - Agent plan loop (src/agent/core/agent.rs)                           *)
(* Each component has its own specification (QueueSpec, RegistrySpec,      *)
(* BusSpec, ...); a specification leaves the other components' variables   *)
(* fixed.                                                                  *)
(* Fields no property reads (payload, metadata, created_by, created_at,    *)
(* updated_at, task_type) are left out of the records.                     *)
(***************************************************************************)
EXTENDS Integers, Sequences, FiniteSets, TLC

VARIABLES
    now,            \* Utc::now() as the registry reads it, in whole ticks
    \* ---- TaskQueue ----
    pending,        \* TaskQueue.pending: priority -> sequence of tasks
    in_progress,    \* TaskQueue.in_progress: task id -> task
    completed,      \* TaskQueue.completed: sequence of tasks
    failed,         \* TaskQueue.failed: sequence of tasks
    dependencies,   \* TaskQueue.dependencies: task id -> sequence of task ids
    active_tasks,   \* the tasks dequeue has handed to its callers
    next_task,      \* number of tasks created so far (ids are 1..next_task)
    enqueuing,      \* enqueue calls between their two lock sections: the tasks
    marking,        \* <<the mark_completed or mark_failed call that holds the
                    \* write guard of in_progress>>, else <<>>
    dequeue_wait,   \* a dequeue holds pending and waits for in_progress.read()
    qLast,          \* the last queue operation and what it returned
    \* ---- AgentRegistry ----
    agents,             \* AgentRegistry.agents: agent id -> AgentInfo
    capability_index,   \* AgentRegistry.capability_index: capability -> ids
    type_index,         \* AgentRegistry.type_index: agent type -> ids
    registrations,      \* number of register calls made so far
    rLast,              \* the last registry operation and what it returned
    \* ---- MessageBus ----
    config,             \* MessageBus.config: the MessageBusConfig given to new
    p2p_channels,       \* MessageBus.p2p_channels: agent id -> the receiver its sender feeds
    receivers,          \* the MessageReceiver objects handed out, in creation order
    message_history,    \* MessageBus.message_history
    stats,              \* MessageBus.stats
    blocked,            \* send_p2p calls waiting in tx.send(..).await, oldest first,
                        \* each with the slot of the inbox it was handed, if any
    sends,              \* number of messages created so far (ids are 1..sends)
    sent,               \* the messages that passed the expiry check of send, in order
    bLast,              \* the last bus operation and what it returned
    \* ---- AgentManager ----
    runtimes,       \* AgentManager.agents: agent id -> AgentRuntime row
    spawning,       \* spawn_agent calls past the limit check: agent id -> position
    terminating,    \* <<id>> while terminate_agent(id) holds the write lock, else <<>>
    drivers,        \* the spawned agent_loop tasks: agent id -> their state
    workers,        \* the Box<dyn AgentBehavior> handed to spawn_agent: agent id -> state
    mLast,          \* the last manager step and what it returned
    \* ---- MemoryPool ----
    global_memory,  \* MemoryPool.global_memory: key -> MemoryEntry
    agent_memory,   \* MemoryPool.agent_memory: agent id -> (key -> MemoryEntry)
    mclock,         \* Utc::now() as the memory pool reads it, in ticks
    sets,           \* number of set calls made on the pool so far
    pLast,          \* the last pool operation and what it returned
    \* ---- Agent (plan loop) ----
    plan,           \* Agent.plan.steps
    step_status,    \* Agent.state.step_status: step id -> StepStatus
    step_results,   \* Agent.state.step_results: step id -> StepResult
    loop_pc,        \* where run_loop is: "idle", "select", "execute", "returned"
    current_step,   \* index in the plan of the step being executed, 0 when none
    executed,       \* the steps run_loop announced on stdout, as plan indices
    runs,           \* number of run_loop calls made so far
    aLast,          \* the last Executor::execute call and what it returned
    \* ---- AgentRegistry, the register and unregister calls in progress ----
    writers,        \* the calls between two of their lock sections, oldest first
    \* ---- MessageReceiver::recv_filtered ----
    filters,        \* receiver -> the filter of its last recv_filtered call, and
                    \* whether that call is still pending
    discarded,      \* receiver -> ids of the messages recv_filtered received and
                    \* did not return
    \* ---- MemoryPool::list_global_keys / list_agent_keys ----
    listed,         \* the keys the last list call returned
    \* ---- AgentRegistry::cleanup_dead_agents statement by statement ----
    reaper,         \* the call in progress: the dead ids it collected and how
                    \* many of them it has unregistered
    \* ---- TaskQueue::dequeue called by several tasks ----
    dequeuers,      \* caller -> "idle", "waiting" for the locks, or "returned"
    taken,          \* caller -> what its last dequeue returned
    \* ---- the RwLocks of registry, task queue and memory pool ----
    locks,          \* lock -> its writer, its readers and its queue of waiters
    threads,        \* thread -> the operation it runs and the statement it is at
    \* ---- MessageBus, the calls in progress ----
    sending,        \* the send calls between two of their sections
    chan_queue,     \* the calls waiting for the lock of p2p_channels, oldest first
    \* ---- MemoryPool, the calls in progress ----
    updating,       \* <<the entry a caller got and is changing>>, else <<>>
    cleaning        \* cleanup_expired: the tier it has reached and its count

(***************************************************************************)
(* Bounds                                                                  *)
(***************************************************************************)
MaxTime == 1
MaxTasks == 2
MaxRegistrations == 2
\* RegistryConfig.heartbeat_timeout_secs of the modelled registry, in ticks
HeartbeatTimeout == 1
\* register_agent and send calls on the bus, together
MaxBusCalls == 3
\* the largest capacity a MessageBusConfig of the model gives to a channel or
\* to the history
MaxCapacity == 2
\* AgentManagerConfig.max_agents of the modelled manager
MaxAgents == 1
\* the last tick of the memory pool's clock
MaxClock == 4
\* set calls on the memory pool
MaxSets == 3
\* run_loop calls on one Agent
MaxRuns == 2
\* tasks that mark_in_progress calls have put into the queue's in-progress
\* map or, from there, into its archives
MaxMarks == 2
\* register and unregister calls between two of their lock sections
MaxWriters == 2
\* send calls between two of their sections
MaxSending == 1

(***************************************************************************)
(* Fixed values of the model                                               *)
(***************************************************************************)
\* ticks of mclock in one second
TicksPerSecond == 2
\* MemoryPoolConfig.max_global_entries and max_agent_entries of the modelled
\* pool
MaxGlobalEntries == 1
MaxAgentEntries == 1

(***************************************************************************)
(* Helpers on sequences                                                    *)
(***************************************************************************)
Range(s) == {s[i] : i \in 1..Len(s)}

RemoveAt(s, i) == [j \in 1..(Len(s) - 1) |-> IF j < i THEN s[j] ELSE s[j + 1]]

NoDeadline == -1

(***************************************************************************)
(* TaskQueue                                                               *)
(***************************************************************************)
PriorityOrder == <<"Critical", "High", "Normal", "Low">>
Priorities == Range(PriorityOrder)
TaskIds == 1..MaxTasks
Reasons == {"boom"}

StPending == [tag |-> "Pending", reason |-> ""]
StInProgress == [tag |-> "InProgress", reason |-> ""]
StCompleted == [tag |-> "Completed", reason |-> ""]
StFailed(reason) == [tag |-> "Failed", reason |-> reason]

\* Task::new followed by add_dependency / with_deadline
NewTask(id, priority, deps, deadline) ==
    [id |-> id, priority |-> priority, status |-> StPending,
     dependencies |-> deps, deadline |-> deadline]

NoTask == [id |-> 0, priority |-> "Normal", status |-> StPending,
           dependencies |-> <<>>, deadline |-> NoDeadline]

\* Task::is_expired
TaskIsExpired(task, t) ==
    IF task.deadline /= NoDeadline THEN t > task.deadline ELSE FALSE

\* an update_status that leaves the status as it was
TaskUpdateStatus_Keep(task, status) == task

\* Task::update_status
TaskUpdateStatus(task, status) == [task EXCEPT !.status = status]

\* completed.iter().any(|t| &t.id == dep_id)
RECURSIVE AnyWithId(_, _, _)
AnyWithId(tasks, i, id) ==
    IF i > Len(tasks) THEN FALSE
    ELSE IF tasks[i].id = id THEN TRUE
    ELSE AnyWithId(tasks, i + 1, id)

\* the loop of are_dependencies_satisfied over task.dependencies, from index k
RECURSIVE DepsLoop(_, _, _, _)
DepsLoop(deps, k, inprog, comp) ==
    IF k > Len(deps) THEN TRUE
    ELSE IF deps[k] \in DOMAIN inprog THEN FALSE
    ELSE IF ~AnyWithId(comp, 1, deps[k]) THEN FALSE
    ELSE DepsLoop(deps, k + 1, inprog, comp)

\* are_dependencies_satisfied without the check against the completed archive
are_dependencies_satisfied_InProgressOnly(task, inprog, comp) ==
    \A k \in 1..Len(task.dependencies) : task.dependencies[k] \notin DOMAIN inprog

are_dependencies_satisfied(task, inprog, comp) ==
    IF Len(task.dependencies) = 0 THEN TRUE
    ELSE DepsLoop(task.dependencies, 1, inprog, comp)

\* the inner loop of dequeue looking at the head of the band only
FirstSatisfied_HeadOnly(queue, i, inprog, comp) ==
    IF Len(queue) > 0 /\ are_dependencies_satisfied(queue[1], inprog, comp) THEN 1 ELSE 0

\* the inner loop of dequeue: index of the first task of the band whose
\* dependencies are satisfied, 0 when there is none
RECURSIVE FirstSatisfied(_, _, _, _)
FirstSatisfied(queue, i, inprog, comp) ==
    IF i > Len(queue) THEN 0
    ELSE IF are_dependencies_satisfied(queue[i], inprog, comp) THEN i
    ELSE FirstSatisfied(queue, i + 1, inprog, comp)

\* the outer loop of dequeue over the priorities, from position k of
\* PriorityOrder: <<priority, index>> of the task to remove, <<"", 0>> for None
RECURSIVE DequeueScan(_, _, _, _)
DequeueScan(pend, k, inprog, comp) ==
    IF k > Len(PriorityOrder) THEN <<"", 0>>
    ELSE LET i == FirstSatisfied(pend[PriorityOrder[k]], 1, inprog, comp)
         IN  IF i /= 0 THEN <<PriorityOrder[k], i>>
             ELSE DequeueScan(pend, k + 1, inprog, comp)

QLast(op, id, ok, task) == [op |-> op, id |-> id, ok |-> ok, task |-> task, at |-> 0]

queueVars == <<pending, in_progress, completed, failed, dependencies,
               active_tasks, next_task, enqueuing, marking, dequeue_wait, qLast>>
registryVars == <<agents, capability_index, type_index, registrations, rLast>>
busVars == <<config, p2p_channels, receivers, message_history, stats, blocked, sends,
            sent, bLast>>
managerVars == <<runtimes, spawning, terminating, drivers, workers, mLast>>
memoryVars == <<global_memory, agent_memory, mclock, sets, pLast>>
planVars == <<plan, step_status, step_results, loop_pc, current_step, executed, runs,
             aLast>>
stepVars == <<writers>>
filterVars == <<filters, discarded>>
listVars == <<listed>>
reaperVars == <<reaper>>
dequeueVars == <<dequeuers, taken>>
lockVars == <<locks, threads>>
sendVars == <<sending, chan_queue>>
poolVars == <<updating, cleaning>>
lateVars == <<listVars, reaperVars, dequeueVars, lockVars, sendVars, poolVars>>
extraVars == <<memoryVars, planVars, stepVars, filterVars, lateVars>>
vars == <<now, queueVars, registryVars, busVars, managerVars, extraVars>>
nonQueueVars == <<registryVars, busVars, managerVars, extraVars>>
nonRegistryVars == <<queueVars, busVars, managerVars, extraVars>>
nonBusVars == <<queueVars, registryVars, managerVars, extraVars>>
nonMemoryVars == <<now, queueVars, registryVars, busVars, managerVars, planVars, stepVars, filterVars,
                   lateVars>>
nonPlanVars == <<now, queueVars, registryVars, busVars, managerVars, memoryVars, stepVars, filterVars,
                 lateVars>>
nonStepVars == <<now, queueVars, busVars, managerVars, memoryVars, planVars, filterVars, lateVars>>
nonFilterVars == <<queueVars, registryVars, managerVars, memoryVars, planVars, stepVars, lateVars>>
nonReaperVars == <<queueVars, busVars, managerVars, memoryVars, planVars, stepVars, filterVars,
                   listVars, dequeueVars, lockVars, sendVars,
                 poolVars>>
nonWriterVars == <<queueVars, busVars, managerVars, memoryVars, planVars, filterVars,
                   listVars, dequeueVars, lockVars, sendVars,
                 poolVars>>
nonSendVars == <<queueVars, registryVars, managerVars, memoryVars, planVars, stepVars,
                 filterVars, listVars, reaperVars, dequeueVars, lockVars,
                 poolVars>>
nonPoolVars == <<now, queueVars, registryVars, busVars, managerVars, planVars, stepVars,
                 filterVars, listVars, reaperVars, dequeueVars, lockVars, sendVars>>
nonDequeueVars == <<registryVars, busVars, managerVars, memoryVars, planVars, stepVars,
                    filterVars, listVars, reaperVars, lockVars, sendVars,
                 poolVars>>
nonLockVars == <<now, queueVars, registryVars, busVars, managerVars, memoryVars, planVars,
                 stepVars, filterVars, listVars, reaperVars, dequeueVars, sendVars,
                 poolVars>>
nonListVars == <<now, queueVars, registryVars, busVars, managerVars, planVars, stepVars, filterVars,
                 reaperVars, dequeueVars, lockVars, sendVars,
                 poolVars>>

QueueInit ==
    /\ pending = [p \in Priorities |-> <<>>]
    /\ in_progress = <<>>
    /\ completed = <<>>
    /\ failed = <<>>
    /\ dependencies = <<>>
    /\ active_tasks = {}
    /\ next_task = 0
    /\ enqueuing = {}
    /\ marking = <<>>
    /\ dequeue_wait = FALSE
    /\ qLast = QLast("new", 0, TRUE, NoTask)

\* HashMap::insert
MapInsert(m, k, v) == [x \in (DOMAIN m) \cup {k} |-> IF x = k THEN v ELSE m[x]]
\* HashMap::remove
MapRemove(m, k) == [x \in (DOMAIN m) \ {k} |-> m[x]]

\* TaskQueue::enqueue of a freshly created task without dependencies: the
\* one lock section on pending
Enqueue(priority, deadline) ==
    /\ next_task < MaxTasks
    /\ ~dequeue_wait
    /\ LET task == NewTask(next_task + 1, priority, <<>>, deadline)
       IN  /\ pending' = [pending EXCEPT ![task.priority] = Append(@, task)]
           /\ next_task' = next_task + 1
           /\ qLast' = QLast("enqueue", task.id, TRUE, task)
    /\ UNCHANGED <<in_progress, completed, failed, dependencies, active_tasks,
                   enqueuing, marking, dequeue_wait, now>>
    /\ UNCHANGED nonQueueVars

\* TaskQueue::enqueue of a freshly created task with dependencies, its first
\* lock section: the dependencies are recorded and the guard is dropped
EnqueueDependencies(priority, deps, deadline) ==
    /\ next_task < MaxTasks
    /\ Len(deps) /= 0
    /\ LET task == NewTask(next_task + 1, priority, deps, deadline)
       IN  /\ dependencies' = MapInsert(dependencies, task.id, task.dependencies)
           /\ enqueuing' = enqueuing \cup {task}
           /\ next_task' = next_task + 1
           /\ qLast' = QLast("enqueue_dependencies", task.id, TRUE, task)
    /\ UNCHANGED <<pending, in_progress, completed, failed, active_tasks, marking,
                   dequeue_wait, now>>
    /\ UNCHANGED nonQueueVars

\* the second lock section of that enqueue: the task joins its band
EnqueuePending(task) ==
    /\ task \in enqueuing
    /\ ~dequeue_wait
    /\ pending' = [pending EXCEPT ![task.priority] = Append(@, task)]
    /\ enqueuing' = enqueuing \ {task}
    /\ qLast' = QLast("enqueue", task.id, TRUE, task)
    /\ UNCHANGED <<in_progress, completed, failed, dependencies, active_tasks,
                   next_task, marking, dequeue_wait, now>>
    /\ UNCHANGED nonQueueVars

\* TaskQueue::dequeue is called while a mark_completed or mark_failed holds
\* the write guard of in_progress: pending.write() is granted, and the call
\* waits at in_progress.read() with the guard of pending
DequeuePending ==
    /\ marking /= <<>>
    /\ ~dequeue_wait
    /\ dequeue_wait' = TRUE
    /\ qLast' = QLast("dequeue_pending", 0, TRUE, NoTask)
    /\ UNCHANGED <<pending, in_progress, completed, failed, dependencies, active_tasks,
                   next_task, enqueuing, marking, now>>
    /\ UNCHANGED nonQueueVars

\* TaskQueue::dequeue, called as MasterAgent::run calls it: the caller keeps
\* the returned task in active_tasks.  The three guards are granted (to a
\* new call, or to the call that waited with the guard of pending), the
\* loops run, the guards are dropped
Dequeue ==
    /\ marking = <<>>
    /\ dequeue_wait' = FALSE
    /\ LET found == DequeueScan(pending, 1, in_progress, completed)
       IN  IF found[2] /= 0
           THEN LET task == pending[found[1]][found[2]]
                IN  /\ pending' = [pending EXCEPT ![found[1]] = RemoveAt(@, found[2])]
                    /\ active_tasks' = active_tasks \cup {task}
                    /\ qLast' = QLast("dequeue", task.id, TRUE, task)
           ELSE /\ UNCHANGED <<pending, active_tasks>>
                /\ qLast' = QLast("dequeue", 0, FALSE, NoTask)
    /\ UNCHANGED <<in_progress, completed, failed, dependencies, next_task, enqueuing,
                   marking, now>>
    /\ UNCHANGED nonQueueVars

\* a task value that was never handed to enqueue
ForeignTask == NewTask(MaxTasks + 1, "Normal", <<>>, NoDeadline)

\* the task values a caller can hand to mark_in_progress: a task it got from
\* dequeue, a clone of a pending task (get_all_pending), a task of its own
MarkInputs ==
    active_tasks
    \cup UNION {Range(pending[p]) : p \in Priorities}
    \cup {ForeignTask}

\* TaskQueue::mark_in_progress: the task value is inserted under its id,
\* whatever the queue holds
MarkInProgress(task) ==
    /\ marking = <<>>
    /\ Cardinality(DOMAIN in_progress) + Len(completed) + Len(failed) < MaxMarks
    /\ LET t == TaskUpdateStatus(task, StInProgress)
       IN  /\ in_progress' = MapInsert(in_progress, t.id, t)
           /\ qLast' = QLast("mark_in_progress", t.id, TRUE, t)
    /\ UNCHANGED <<pending, completed, failed, dependencies, active_tasks, next_task,
                   enqueuing, marking, dequeue_wait, now>>
    /\ UNCHANGED nonQueueVars

\* a mark_completed or mark_failed call past its removal from in_progress:
\* the task it removed, with its new status, and the collection it pushes to
\* next
Marking(op, pc, task) == [op |-> op, pc |-> pc, task |-> task]

\* TaskQueue::mark_completed up to self.completed.write().await: the write
\* guard of in_progress is taken and the id removed; the guard is a temporary
\* of the if-let and is held until the function returns
MarkCompleted(task_id) ==
    /\ marking = <<>>
    /\ IF task_id \in DOMAIN in_progress
       THEN LET t == TaskUpdateStatus(in_progress[task_id], StCompleted)
            IN  /\ in_progress' = MapRemove(in_progress, task_id)
                /\ marking' = <<Marking("mark_completed", "completed", t)>>
                /\ qLast' = QLast("mark_completed_remove", task_id, TRUE, t)
       ELSE /\ UNCHANGED <<in_progress, marking>>
            /\ qLast' = QLast("mark_completed", task_id, FALSE, NoTask)
    /\ UNCHANGED <<pending, completed, failed, dependencies, active_tasks, next_task,
                   enqueuing, dequeue_wait, now>>
    /\ UNCHANGED nonQueueVars

\* self.completed.write().await.push(task)
MarkCompletedPush ==
    /\ marking /= <<>>
    /\ marking[1].pc = "completed"
    /\ completed' = Append(completed, marking[1].task)
    /\ marking' = <<[marking[1] EXCEPT !.pc = "dependencies"]>>
    /\ qLast' = QLast("mark_completed_push", marking[1].task.id, TRUE, marking[1].task)
    /\ UNCHANGED <<pending, in_progress, failed, dependencies, active_tasks, next_task,
                   enqueuing, dequeue_wait, now>>
    /\ UNCHANGED nonQueueVars

\* self.dependencies.write().await.remove(task_id); Ok(()), the guard of
\* in_progress is dropped
MarkCompletedDependencies ==
    /\ marking /= <<>>
    /\ marking[1].pc = "dependencies"
    /\ dependencies' = MapRemove(dependencies, marking[1].task.id)
    /\ marking' = <<>>
    /\ qLast' = QLast("mark_completed", marking[1].task.id, TRUE, marking[1].task)
    /\ UNCHANGED <<pending, in_progress, completed, failed, active_tasks, next_task,
                   enqueuing, dequeue_wait, now>>
    /\ UNCHANGED nonQueueVars

\* TaskQueue::mark_failed up to self.failed.write().await
MarkFailed(task_id, reason) ==
    /\ marking = <<>>
    /\ IF task_id \in DOMAIN in_progress
       THEN LET t == TaskUpdateStatus(in_progress[task_id], StFailed(reason))
            IN  /\ in_progress' = MapRemove(in_progress, task_id)
                /\ marking' = <<Marking("mark_failed", "failed", t)>>
                /\ qLast' = QLast("mark_failed_remove", task_id, TRUE, t)
       ELSE /\ UNCHANGED <<in_progress, marking>>
            /\ qLast' = QLast("mark_failed", task_id, FALSE, NoTask)
    /\ UNCHANGED <<pending, completed, failed, dependencies, active_tasks, next_task,
                   enqueuing, dequeue_wait, now>>
    /\ UNCHANGED nonQueueVars

\* self.failed.write().await.push(task); Ok(()), the guard of in_progress is
\* dropped
MarkFailedPush ==
    /\ marking /= <<>>
    /\ marking[1].pc = "failed"
    /\ failed' = Append(failed, marking[1].task)
    /\ marking' = <<>>
    /\ qLast' = QLast("mark_failed", marking[1].task.id, TRUE, marking[1].task)
    /\ UNCHANGED <<pending, in_progress, completed, dependencies, active_tasks,
                   next_task, enqueuing, dequeue_wait, now>>
    /\ UNCHANGED nonQueueVars

\* the tasks of a band that cleanup_expired keeps
RECURSIVE KeepUnexpired(_, _, _)
KeepUnexpired(queue, i, t) ==
    IF i > Len(queue) THEN <<>>
    ELSE IF TaskIsExpired(queue[i], t) THEN KeepUnexpired(queue, i + 1, t)
    ELSE <<queue[i]>> \o KeepUnexpired(queue, i + 1, t)

RECURSIVE SumLen(_, _)
SumLen(pend, k) ==
    IF k > Len(PriorityOrder) THEN 0
    ELSE Len(pend[PriorityOrder[k]]) + SumLen(pend, k + 1)

\* TaskQueue::cleanup_expired while Utc::now() is t; qLast.id carries the
\* returned count
CleanupExpired(t) ==
    /\ ~dequeue_wait
    /\ pending' = [p \in Priorities |-> KeepUnexpired(pending[p], 1, t)]
    /\ qLast' = [QLast("cleanup_expired", SumLen(pending, 1) - SumLen(pending', 1),
                       TRUE, NoTask) EXCEPT !.at = t]
    /\ UNCHANGED <<in_progress, completed, failed, dependencies, active_tasks,
                   next_task, enqueuing, marking, dequeue_wait, now>>
    /\ UNCHANGED nonQueueVars

\* TaskQueue::size: the body is the literal 0
size == 0

\* a call of TaskQueue::size, as MasterAgent::get_status makes it for
\* "queued_tasks"; qLast.id carries the returned number
Size ==
    /\ qLast' = QLast("size", size, TRUE, NoTask)
    /\ UNCHANGED <<pending, in_progress, completed, failed, dependencies,
                   active_tasks, next_task, enqueuing, marking, dequeue_wait, now>>
    /\ UNCHANGED nonQueueVars

\* the tasks handed to enqueue: priority, dependencies, deadline
TaskInputs ==
    {<<"Critical", <<2>>, NoDeadline>>,
     <<"Critical", <<>>, NoDeadline>>,
     <<"High", <<1>>, NoDeadline>>,
     <<"High", <<1, 2>>, NoDeadline>>,
     <<"Normal", <<>>, NoDeadline>>,
     <<"Normal", <<>>, 0>>,
     <<"Low", <<3>>, NoDeadline>>,
     <<"Low", <<>>, NoDeadline>>}

\* the values of Utc::now() at a cleanup_expired: at the deadline, after it
CleanupTimes == {0, 1}

\* the ids mark_completed and mark_failed are called with
MarkIds == 1..(MaxTasks + 1)

QueueNext ==
    \/ \E in \in {i \in TaskInputs : i[2] = <<>>} : Enqueue(in[1], in[3])
    \/ \E in \in TaskInputs : EnqueueDependencies(in[1], in[2], in[3])
    \/ \E task \in enqueuing : EnqueuePending(task)
    \/ DequeuePending
    \/ Dequeue
    \/ \E task \in MarkInputs : MarkInProgress(task)
    \/ \E id \in MarkIds : MarkCompleted(id)
    \/ MarkCompletedPush
    \/ MarkCompletedDependencies
    \/ \E id \in MarkIds, r \in Reasons : MarkFailed(id, r)
    \/ MarkFailedPush
    \/ \E t \in CleanupTimes : CleanupExpired(t)
    \/ Size

(***************************************************************************)
(* AgentRegistry                                                           *)
(***************************************************************************)
AgentIds == {"a1", "a2"}
AgentStatuses == {"Active", "Busy"}

\* AgentInfo::new
NewAgentInfo(id, agent_type, capabilities, t) ==
    [id |-> id, agent_type |-> agent_type, capabilities |-> capabilities,
     status |-> "Active", last_heartbeat |-> t]

\* AgentInfo::is_alive
is_alive(info, timeout, t) == t - info.last_heartbeat < timeout

\* entry(key).or_insert_with(Vec::new).push(id)
IndexPush(index, key, id) ==
    IF key \in DOMAIN index
    THEN [index EXCEPT ![key] = Append(@, id)]
    ELSE MapInsert(index, key, <<id>>)

\* agents.retain(|id| id != agent_id)
RECURSIVE Retain(_, _, _)
Retain(ids, i, agent_id) ==
    IF i > Len(ids) THEN <<>>
    ELSE IF ids[i] /= agent_id THEN <<ids[i]>> \o Retain(ids, i + 1, agent_id)
    ELSE Retain(ids, i + 1, agent_id)

\* if let Some(agents) = index.get_mut(key) { retain; if empty { remove } }
IndexRemove(index, key, agent_id) ==
    IF key \in DOMAIN index
    THEN LET kept == Retain(index[key], 1, agent_id)
         IN  IF Len(kept) = 0 THEN MapRemove(index, key)
             ELSE [index EXCEPT ![key] = kept]
    ELSE index

\* the loop of register over the declared capabilities
RECURSIVE RegisterCaps(_, _, _, _)
RegisterCaps(index, caps, k, agent_id) ==
    IF k > Len(caps) THEN index
    ELSE RegisterCaps(IndexPush(index, caps[k], agent_id), caps, k + 1, agent_id)

\* the loop of unregister over the capabilities of the removed row
RECURSIVE UnregisterCaps(_, _, _, _)
UnregisterCaps(index, caps, k, agent_id) ==
    IF k > Len(caps) THEN index
    ELSE UnregisterCaps(IndexRemove(index, caps[k], agent_id), caps, k + 1, agent_id)

\* agent_ids.iter().filter_map(|id| agents.get(id).cloned()).collect(), from
\* index i
RECURSIVE FindCollect(_, _, _)
FindCollect(ids, i, ags) ==
    IF i > Len(ids) THEN <<>>
    ELSE IF ids[i] \in DOMAIN ags
    THEN <<ags[ids[i]]>> \o FindCollect(ids, i + 1, ags)
    ELSE FindCollect(ids, i + 1, ags)

\* AgentRegistry::find_by_type
find_by_type(tidx, ags, agent_type) ==
    IF agent_type \in DOMAIN tidx THEN FindCollect(tidx[agent_type], 1, ags) ELSE <<>>

\* AgentRegistry::find_by_capability
find_by_capability(cidx, ags, capability) ==
    IF capability \in DOMAIN cidx THEN FindCollect(cidx[capability], 1, ags) ELSE <<>>

RLast(op, id, ok, ids) == [op |-> op, id |-> id, ok |-> ok, ids |-> ids]

RegistryInit ==
    /\ agents = <<>>
    /\ capability_index = <<>>
    /\ type_index = <<>>
    /\ registrations = 0
    /\ rLast = RLast("new", "", TRUE, {})

\* a call of register or unregister between its lock sections: pc 0 while it
\* waits for the write lock of the primary map, pc 1 after the statement on
\* the primary map, when it waits for the write lock of the capability index,
\* pc 2 while it holds that lock; by names the caller
Writer(op, pc, info, by) == [op |-> op, pc |-> pc, info |-> info, by |-> by]

StepInit == writers = <<>>

\* nobody holds the write lock of the capability index
CapabilityIndexFree == \A i \in DOMAIN writers : writers[i].pc /= 2

\* a call made by this caller is between two of its lock sections
InFlight(by) == \E i \in DOMAIN writers : writers[i].by = by

\* the ids of the rows a find returned
IdsOf(infos) == {infos[i].id : i \in DOMAIN infos}

\* AgentRegistry::register(agent_info), first statement: the row the caller
\* made goes into the primary map and the lock on it is released
RegisterInsert(agent_info) ==
    /\ registrations < MaxRegistrations
    /\ Len(writers) < MaxWriters
    /\ registrations' = registrations + 1
    /\ agents' = MapInsert(agents, agent_info.id, agent_info)
    /\ writers' = Append(writers, Writer("register", 1, agent_info, "caller"))
    /\ UNCHANGED <<capability_index, type_index, rLast, reaper, now>>
    /\ UNCHANGED nonWriterVars

\* register, the loop over the capabilities under the write lock of the
\* capability index, which the call keeps until it returns
RegisterIndexCapabilities(i) ==
    /\ writers[i].op = "register"
    /\ writers[i].pc = 1
    /\ CapabilityIndexFree
    /\ capability_index' = RegisterCaps(capability_index, writers[i].info.capabilities, 1,
                                        writers[i].info.id)
    /\ writers' = [writers EXCEPT ![i].pc = 2]
    /\ UNCHANGED <<agents, type_index, registrations, rLast, reaper, now>>
    /\ UNCHANGED nonWriterVars

\* register, the push into the type index and the return
RegisterIndexType(i) ==
    /\ writers[i].op = "register"
    /\ writers[i].pc = 2
    /\ type_index' = IndexPush(type_index, writers[i].info.agent_type, writers[i].info.id)
    /\ writers' = RemoveAt(writers, i)
    /\ rLast' = RLast("register", writers[i].info.id, TRUE, {})
    /\ UNCHANGED <<agents, capability_index, registrations, reaper, now>>
    /\ UNCHANGED nonWriterVars

\* AgentRegistry::unregister, first statement: the row leaves the primary
\* map, or the call returns AgentNotFound
UnregisterRemove(agent_id) ==
    /\ IF agent_id \in DOMAIN agents
       THEN /\ Len(writers) < MaxWriters
            /\ agents' = MapRemove(agents, agent_id)
            /\ writers' = Append(writers, Writer("unregister", 1, agents[agent_id], "caller"))
            /\ UNCHANGED rLast
       ELSE /\ rLast' = RLast("unregister", agent_id, FALSE, {})
            /\ UNCHANGED <<agents, writers>>
    /\ UNCHANGED <<capability_index, type_index, registrations, reaper, now>>
    /\ UNCHANGED nonWriterVars

\* unregister, the loop over the capabilities of the removed row
UnregisterIndexCapabilities(i) ==
    /\ writers[i].op = "unregister"
    /\ writers[i].pc = 1
    /\ CapabilityIndexFree
    /\ capability_index' = UnregisterCaps(capability_index, writers[i].info.capabilities, 1,
                                          writers[i].info.id)
    /\ writers' = [writers EXCEPT ![i].pc = 2]
    /\ UNCHANGED <<agents, type_index, registrations, rLast, reaper, now>>
    /\ UNCHANGED nonWriterVars

\* unregister, the type index and the return
UnregisterIndexType(i) ==
    /\ writers[i].op = "unregister"
    /\ writers[i].pc = 2
    /\ type_index' = IndexRemove(type_index, writers[i].info.agent_type, writers[i].info.id)
    /\ writers' = RemoveAt(writers, i)
    /\ rLast' = RLast("unregister", writers[i].info.id, TRUE, {})
    /\ UNCHANGED <<agents, capability_index, registrations, reaper, now>>
    /\ UNCHANGED nonWriterVars

\* AgentRegistry::update_status
UpdateStatus(agent_id, status) ==
    /\ IF agent_id \in DOMAIN agents
       THEN agents' = [agents EXCEPT ![agent_id].status = status]
       ELSE UNCHANGED agents
    /\ rLast' = RLast("update_status", agent_id, agent_id \in DOMAIN agents, {})
    /\ UNCHANGED <<capability_index, type_index, registrations, now>>
    /\ UNCHANGED nonRegistryVars

\* AgentRegistry::heartbeat
Heartbeat(agent_id) ==
    /\ IF agent_id \in DOMAIN agents
       THEN agents' = [agents EXCEPT ![agent_id].last_heartbeat = now]
       ELSE UNCHANGED agents
    /\ rLast' = RLast("heartbeat", agent_id, agent_id \in DOMAIN agents, {})
    /\ UNCHANGED <<capability_index, type_index, registrations, now>>
    /\ UNCHANGED nonRegistryVars

\* ---- cleanup_dead_agents ----
\* dead: the collected ids the loop has not reached yet; removed: the ids
\* whose row this call removed
Reaper(pc, dead, collected, removed) ==
    [pc |-> pc, dead |-> dead, collected |-> collected, removed |-> removed]

ReaperIdle == Reaper("idle", {}, {}, {})

ReaperInit == reaper = ReaperIdle

\* cleanup_dead_agents up to drop(agents): the dead ids are collected under
\* the read lock
CleanupCollect ==
    /\ reaper.pc = "idle"
    /\ LET dead_agents == {id \in DOMAIN agents :
                              ~is_alive(agents[id], HeartbeatTimeout, now)}
       IN  reaper' = Reaper("unregistering", dead_agents, dead_agents, {})
    /\ UNCHANGED <<agents, capability_index, type_index, registrations, rLast, writers, now>>
    /\ UNCHANGED nonWriterVars

\* one iteration of the loop, let _ = self.unregister(agent_id).await, up to
\* the end of the first statement of unregister
CleanupUnregisterOne(agent_id) ==
    /\ reaper.pc = "unregistering"
    /\ agent_id \in reaper.dead
    /\ ~InFlight("reaper")
    /\ IF agent_id \in DOMAIN agents
       THEN /\ Len(writers) < MaxWriters
            /\ agents' = MapRemove(agents, agent_id)
            /\ writers' = Append(writers, Writer("unregister", 1, agents[agent_id], "reaper"))
            /\ reaper' = [reaper EXCEPT !.dead = @ \ {agent_id},
                                        !.removed = @ \cup {agent_id}]
       ELSE /\ reaper' = [reaper EXCEPT !.dead = @ \ {agent_id}]
            /\ UNCHANGED <<agents, writers>>
    /\ rLast' = RLast("cleanup_unregister", agent_id, agent_id \in DOMAIN agents, {})
    /\ UNCHANGED <<capability_index, type_index, registrations, now>>
    /\ UNCHANGED nonWriterVars

\* the loop is over: dead_agents is returned
CleanupReturn ==
    /\ reaper.pc = "unregistering"
    /\ reaper.dead = {}
    /\ ~InFlight("reaper")
    /\ reaper' = ReaperIdle
    /\ rLast' = RLast("cleanup_dead_agents", "", TRUE, reaper.collected)
    /\ UNCHANGED <<agents, capability_index, type_index, registrations, writers, now>>
    /\ UNCHANGED nonWriterVars

RegistryTick ==
    /\ now < MaxTime
    /\ now' = now + 1
    /\ UNCHANGED <<agents, capability_index, type_index, registrations, rLast>>
    /\ UNCHANGED nonRegistryVars

\* the agents handed to register: type and declared capabilities
AgentInputs ==
    {<<"Executor", <<"TaskExecution">>>>,
     <<"Planner", <<"TaskPlanning", "TaskExecution">>>>,
     <<"Planner", <<>>>>}

\* the rows handed to register: each made by AgentInfo::new at a moment up to
\* the one the write lock of the primary map is given to the call
RegisterInputs ==
    {NewAgentInfo(id, in[1], in[2], t) : id \in AgentIds, in \in AgentInputs, t \in 0..now}

\* register and unregister, each as the lock sections it is made of
RegisterCalls ==
    \/ \E agent_info \in RegisterInputs : RegisterInsert(agent_info)
    \/ \E i \in DOMAIN writers : RegisterIndexCapabilities(i)
    \/ \E i \in DOMAIN writers : RegisterIndexType(i)

UnregisterCalls ==
    \/ \E id \in AgentIds : UnregisterRemove(id)
    \/ \E i \in DOMAIN writers : UnregisterIndexCapabilities(i)
    \/ \E i \in DOMAIN writers : UnregisterIndexType(i)

RegistryNext ==
    \/ RegisterCalls
    \/ UnregisterCalls
    \/ \E id \in AgentIds, st \in AgentStatuses : UpdateStatus(id, st)
    \/ \E id \in AgentIds : Heartbeat(id)
    \/ CleanupCollect
    \/ \E id \in AgentIds : CleanupUnregisterOne(id)
    \/ CleanupReturn
    \/ RegistryTick

\* every registry call that was made has returned
RegistryQuiet == writers = <<>> /\ reaper.pc = "idle"

\* the registry used by one caller at a time: a call is made when the call
\* before it has returned
ReaperNext ==
    \/ (RegistryQuiet /\ \E agent_info \in RegisterInputs : RegisterInsert(agent_info))
    \/ \E i \in DOMAIN writers : RegisterIndexCapabilities(i)
    \/ \E i \in DOMAIN writers : RegisterIndexType(i)
    \/ \E i \in DOMAIN writers : UnregisterIndexCapabilities(i)
    \/ \E i \in DOMAIN writers : UnregisterIndexType(i)
    \/ (RegistryQuiet /\ \E id \in AgentIds : Heartbeat(id))
    \/ (RegistryQuiet /\ CleanupCollect)
    \/ \E id \in AgentIds : CleanupUnregisterOne(id)
    \/ CleanupReturn
    \/ RegistryTick

\* ---- the readers ----
\* a reader changes nothing but the record of what it was given
ReaderUnchanged ==
    /\ UNCHANGED <<agents, capability_index, type_index, registrations, writers, reaper, now>>
    /\ UNCHANGED nonWriterVars

\* AgentRegistry::get_agent
RegistryGetAgent(agent_id) ==
    /\ rLast' = RLast("get_agent", agent_id, agent_id \in DOMAIN agents,
                      IF agent_id \in DOMAIN agents THEN {agent_id} ELSE {})
    /\ ReaderUnchanged

\* AgentRegistry::get_all_agents
GetAllAgents ==
    /\ rLast' = RLast("get_all_agents", "", TRUE, DOMAIN agents)
    /\ ReaderUnchanged

\* AgentRegistry::find_by_type
FindByType(agent_type) ==
    /\ rLast' = RLast("find_by_type", agent_type, TRUE,
                      IdsOf(find_by_type(type_index, agents, agent_type)))
    /\ ReaderUnchanged

\* AgentRegistry::find_by_capability: its read lock on the capability index
\* waits while a writer holds the write lock
FindByCapability(capability) ==
    /\ CapabilityIndexFree
    /\ rLast' = RLast("find_by_capability", capability, TRUE,
                      IdsOf(find_by_capability(capability_index, agents, capability)))
    /\ ReaderUnchanged

AgentTypes == {"Executor", "Planner"}
Capabilities == {"TaskExecution", "TaskPlanning"}

RegistryStepNext ==
    \/ RegisterCalls
    \/ UnregisterCalls
    \/ \E id \in AgentIds : RegistryGetAgent(id)
    \/ GetAllAgents
    \/ \E agent_type \in AgentTypes : FindByType(agent_type)
    \/ \E capability \in Capabilities : FindByCapability(capability)

(***************************************************************************)
(* MessageBus                                                              *)
(***************************************************************************)
NoReceiver == "none"
NoExpiry == -1

\* MessagePriority as the enum orders it
PriorityLow == 0
PriorityNormal == 1
PriorityHigh == 2

\* Message::new followed by with_priority and with_expiry
NewMessage(id, sender_id, receiver_id, message_type, priority, expires_at) ==
    [id |-> id, sender_id |-> sender_id, receiver_id |-> receiver_id,
     message_type |-> message_type, priority |-> priority, expires_at |-> expires_at]

NoMessage == NewMessage(0, "", NoReceiver, "", PriorityNormal, NoExpiry)

\* Message::is_expired with the comparison turned round
MessageIsExpired_Reversed(message, t) ==
    IF message.expires_at /= NoExpiry THEN t < message.expires_at ELSE FALSE

\* Message::is_expired
MessageIsExpired(message, t) ==
    IF message.expires_at /= NoExpiry THEN t > message.expires_at ELSE FALSE

\* Message::is_broadcast
is_broadcast(message) == message.receiver_id = NoReceiver

\* usize::next_power_of_two, which tokio's broadcast::channel applies to the
\* requested capacity
RECURSIVE NextPowerOfTwoFrom(_, _)
NextPowerOfTwoFrom(p, n) == IF p >= n THEN p ELSE NextPowerOfTwoFrom(2 * p, n)
NextPowerOfTwo(n) == NextPowerOfTwoFrom(1, n)

\* the number of messages the broadcast channel retains
BroadcastRetained == NextPowerOfTwo(config.broadcast_capacity)

\* MessageBus::register_agent builds this MessageReceiver: the mpsc receiver
\* exists from mpsc::channel on, the broadcast receiver from subscribe() on
NewReceiver(agent_id) ==
    [agent_id |-> agent_id, p2p_rx |-> <<>>, broadcast_rx |-> <<>>,
     lagged |-> FALSE, alive |-> TRUE, subscribed |-> FALSE, branches |-> "both"]

\* register_agent has returned the receiver and its owner has not dropped it
Open(rcv) == rcv.alive /\ rcv.subscribed

\* the mpsc channel of receiver h is closed for the receiver once the bus
\* holds no sender for it
SenderDropped(channels, h) == \A a \in DOMAIN channels : channels[a] /= h

\* a subscriber that gets the new value ahead of the ones it already holds
Subscribe_Front(rcv, message) ==
    IF ~Open(rcv) THEN rcv
    ELSE IF Len(rcv.broadcast_rx) < BroadcastRetained
    THEN [rcv EXCEPT !.broadcast_rx = <<message>> \o @]
    ELSE [rcv EXCEPT !.broadcast_rx = <<message>> \o Tail(@), !.lagged = TRUE]

\* broadcast::Sender::send as one subscriber sees it: the value is appended,
\* and a subscriber that is a full buffer behind loses its oldest value
Subscribe(rcv, message) ==
    IF ~Open(rcv) THEN rcv
    ELSE IF Len(rcv.broadcast_rx) < BroadcastRetained
    THEN [rcv EXCEPT !.broadcast_rx = Append(@, message)]
    ELSE [rcv EXCEPT !.broadcast_rx = Append(Tail(@), message), !.lagged = TRUE]

\* the filter comparing the receiver id of the message instead of its sender id
IsOwnBroadcast_ByReceiver(message, agent_id) == message.receiver_id = agent_id

\* the filter of recv and try_recv on the broadcast path:
\* msg.sender_id != self.agent_id fails
IsOwnBroadcast(message, agent_id) == message.sender_id = agent_id

\* a history that never evicts
save_to_history_Unbounded(history, message) == Append(history, message)

\* MessageBus::save_to_history
save_to_history(history, message) ==
    IF Len(history) >= config.history_size
    THEN Append(Tail(history), message)
    ELSE Append(history, message)

\* MessageFilter::matches; an Option is <<>> for None and <<x>> for Some(x)
MessageFilterMatches(filter, message) ==
    IF filter.sender_id /= <<>> /\ message.sender_id /= filter.sender_id[1]
    THEN FALSE
    ELSE IF /\ filter.message_types /= <<>>
            /\ message.message_type \notin Range(filter.message_types[1])
    THEN FALSE
    ELSE IF filter.min_priority /= <<>> /\ message.priority < filter.min_priority[1]
    THEN FALSE
    ELSE TRUE

\* history.iter().filter(|msg| filter.matches(msg)).cloned().collect(), from index i
RECURSIVE FilterCollect(_, _, _)
FilterCollect(history, i, filter) ==
    IF i > Len(history) THEN <<>>
    ELSE IF MessageFilterMatches(filter, history[i])
    THEN <<history[i]>> \o FilterCollect(history, i + 1, filter)
    ELSE FilterCollect(history, i + 1, filter)

\* MessageBus::get_history
get_history(history, filter) ==
    IF filter /= <<>> THEN FilterCollect(history, 1, filter[1]) ELSE history

\* a failure path that forgets to count
CountFailed_Forgotten(st) == st

\* self.stats.write().await.failed_deliveries += 1
CountFailed(st) == [st EXCEPT !.failed_deliveries = @ + 1]

BLast(op, agent, rcv, ok, err, message) ==
    [op |-> op, agent |-> agent, rcv |-> rcv, ok |-> ok, err |-> err, msg |-> message,
     at |-> 0, list |-> <<>>]

\* the outcome of a send, with the value Utc::now() had in is_expired
SendLast(rcv, ok, err, message, t) ==
    [BLast("send", message.sender_id, rcv, ok, err, message) EXCEPT !.at = t]

\* the configurations MessageBus::new is given
BusConfigs ==
    {[broadcast_capacity |-> c, p2p_capacity |-> c, history_size |-> c] :
        c \in 1..MaxCapacity}

BusInit ==
    /\ config \in BusConfigs
    /\ p2p_channels = <<>>
    /\ receivers = <<>>
    /\ message_history = <<>>
    /\ stats = [total_messages |-> 0, broadcast_messages |-> 0, p2p_messages |-> 0,
                failed_deliveries |-> 0, expired_messages |-> 0]
    /\ blocked = <<>>
    /\ sends = 0
    /\ sent = <<>>
    /\ bLast = BLast("new", "", 0, TRUE, "", NoMessage)

SendInit ==
    /\ sending = {}
    /\ chan_queue = <<>>

\* a send between two of its sections: pc names the section it has reached
\* ("history", "count", "deliver", "failed"; "granted" once its wait for the
\* lock of p2p_channels is over), rcv and err what the lookup of
\* the receiver found, at the value Utc::now() had in is_expired
Sending(message, pc, rcv, err, t) ==
    [msg |-> message, pc |-> pc, rcv |-> rcv, err |-> err, at |-> t]

\* a call waiting for the lock of p2p_channels
Queued(op, agent_id, call) == [op |-> op, agent |-> agent_id, call |-> call]

NoCall == Sending(NoMessage, "", 0, "", 0)

\* a send_p2p holds the read lock of p2p_channels: it waits in
\* tx.send(..).await, or it is about to count its failure
ChannelsReadHeld ==
    \/ blocked /= <<>>
    \/ \E s \in sending : s.pc = "failed" /\ ~is_broadcast(s.msg)
    \/ \E s \in sending : s.pc = "granted"

\* the lock of p2p_channels is given at once: nobody holds it and nobody waits
ChannelsFree == ~ChannelsReadHeld /\ chan_queue = <<>>

\* the calls the model still makes on the bus
BusCalls ==
    sends + Len(receivers)
       + Cardinality({i \in DOMAIN chan_queue : chan_queue[i].op = "register_agent"})

\* register_agent, the statement under the write lock of p2p_channels: the
\* sender of the new mpsc channel is stored under the id
InsertChannel(agent_id) ==
    /\ p2p_channels' = MapInsert(p2p_channels, agent_id, Len(receivers) + 1)
    /\ receivers' = Append(receivers, NewReceiver(agent_id))
    /\ bLast' = BLast("insert_channel", agent_id, Len(receivers) + 1, TRUE, "", NoMessage)

\* unregister_agent, the statement under the write lock of p2p_channels
RemoveChannel(agent_id) ==
    /\ p2p_channels' = MapRemove(p2p_channels, agent_id)
    /\ bLast' = BLast("unregister_agent", agent_id, 0, TRUE, "", NoMessage)
    /\ UNCHANGED receivers

\* register_agent at self.p2p_channels.write().await: the insert when the lock
\* is given at once, else the call joins the waiters
RegisterAgentLock(agent_id) ==
    IF ChannelsFree
    THEN /\ InsertChannel(agent_id)
         /\ UNCHANGED chan_queue
    ELSE /\ chan_queue' = Append(chan_queue, Queued("register_agent", agent_id, NoCall))
         /\ bLast' = BLast("register_agent", agent_id, 0, FALSE, "waiting", NoMessage)
         /\ UNCHANGED <<p2p_channels, receivers>>

\* MessageBus::register_agent up to the end of its first statement, or to the
\* wait for the write lock of p2p_channels
RegisterAgent(agent_id) ==
    /\ BusCalls < MaxBusCalls
    /\ RegisterAgentLock(agent_id)
    /\ UNCHANGED <<config, message_history, stats, blocked, sends, sent, sending, now>>
    /\ UNCHANGED nonSendVars

\* register_agent, the statement after the lock is released:
\* self.broadcast_tx.subscribe(), and the receiver is returned
RegisterSubscribe(h) ==
    /\ receivers[h].alive
    /\ ~receivers[h].subscribed
    /\ receivers' = [receivers EXCEPT ![h].subscribed = TRUE]
    /\ bLast' = BLast("register_agent", receivers[h].agent_id, h, TRUE, "", NoMessage)
    /\ UNCHANGED <<config, p2p_channels, message_history, stats, blocked, sends, sent, now>>
    /\ UNCHANGED <<sendVars, nonSendVars>>

\* unregister_agent at self.p2p_channels.write().await: the remove when the
\* lock is given at once, else the call joins the waiters
UnregisterAgentLock(agent_id) ==
    IF ChannelsFree
    THEN /\ RemoveChannel(agent_id)
         /\ UNCHANGED chan_queue
    ELSE /\ Len(chan_queue) < MaxBusCalls
         /\ chan_queue' = Append(chan_queue, Queued("unregister_agent", agent_id, NoCall))
         /\ bLast' = BLast("unregister_agent", agent_id, 0, FALSE, "waiting", NoMessage)
         /\ UNCHANGED <<p2p_channels, receivers>>

\* MessageBus::unregister_agent, or its wait for the write lock
UnregisterAgent(agent_id) ==
    /\ UnregisterAgentLock(agent_id)
    /\ UNCHANGED <<config, message_history, stats, blocked, sends, sent, sending, now>>
    /\ UNCHANGED nonSendVars

\* the sends at the head of the waiters
RECURSIVE LeadingSends(_)
LeadingSends(queue) ==
    IF queue = <<>> \/ Head(queue).op /= "send" THEN <<>>
    ELSE <<Head(queue)>> \o LeadingSends(Tail(queue))

\* the oldest waiting call is a writer and the readers have gone: it was
\* handed the lock, is polled and runs its statement; the guard it drops hands
\* the lock to the sends that waited behind it, up to the next writer
GrantWriter ==
    /\ chan_queue /= <<>>
    /\ Head(chan_queue).op \in {"register_agent", "unregister_agent"}
    /\ ~ChannelsReadHeld
    /\ IF Head(chan_queue).op = "register_agent"
       THEN InsertChannel(Head(chan_queue).agent)
       ELSE RemoveChannel(Head(chan_queue).agent)
    /\ LET handed == LeadingSends(Tail(chan_queue))
       IN  /\ chan_queue' = SubSeq(chan_queue, Len(handed) + 2, Len(chan_queue))
           /\ sending' = sending \cup {[handed[i].call EXCEPT !.pc = "granted"] :
                                         i \in 1..Len(handed)}
    /\ UNCHANGED <<config, message_history, stats, blocked, sends, sent, now>>
    /\ UNCHANGED nonSendVars

\* a send_p2p waiting in tx.send(..).await on the channel of receiver h;
\* granted: a slot a recv freed has been handed to it, and it has not been
\* polled since
Blocked(message, h, granted) == [msg |-> message, rcv |-> h, granted |-> granted]

\* the waiting sends on the channel of h that own a slot
Owning(blk, h) == {i \in 1..Len(blk) : blk[i].rcv = h /\ blk[i].granted}

\* the waiting sends on the channel of h that own none
Awaiting(blk, h) == {i \in 1..Len(blk) : blk[i].rcv = h /\ ~blk[i].granted}

\* a send on the mpsc channel of receiver h has to wait: the semaphore of the
\* channel has no permit left, every slot holding a message or belonging to a
\* waiting send
MustWait(h) ==
    Len(receivers[h].p2p_rx) + Cardinality(Owning(blocked, h)) >= config.p2p_capacity

\* a recv took a message out of the inbox of h: the permit goes to the oldest
\* waiting send that owns none, and back to the semaphore when there is none
Handover(blk, h) ==
    IF Awaiting(blk, h) = {} THEN blk
    ELSE LET i == CHOOSE k \in Awaiting(blk, h) : \A j \in Awaiting(blk, h) : k <= j
         IN  [blk EXCEPT ![i].granted = TRUE]

\* the waiting sends after a step of the owner of receiver h that left it as r
AfterRecv(h, r) ==
    IF Len(r.p2p_rx) < Len(receivers[h].p2p_rx) THEN Handover(blocked, h) ELSE blocked

\* MessageBus::send of a freshly created message, its first section: the
\* expiry check and the count of expired or of total messages
Send(sender_id, receiver_id, message_type, priority, expires_at, t) ==
    /\ BusCalls < MaxBusCalls
    /\ Cardinality(sending) < MaxSending
    /\ sends' = sends + 1
    /\ LET message == NewMessage(sends + 1, sender_id, receiver_id, message_type,
                                 priority, expires_at)
       IN  IF MessageIsExpired(message, t)
           THEN /\ stats' = [stats EXCEPT !.expired_messages = @ + 1]
                /\ bLast' = SendLast(0, FALSE, "expired", message, t)
                /\ UNCHANGED <<sent, sending>>
           ELSE /\ stats' = [stats EXCEPT !.total_messages = @ + 1]
                /\ sent' = Append(sent, message)
                /\ sending' = sending \cup {Sending(message, "history", 0, "", t)}
                /\ bLast' = [BLast("send_total", sender_id, 0, TRUE, "", message) EXCEPT !.at = t]
    /\ UNCHANGED <<config, p2p_channels, receivers, message_history, blocked, chan_queue, now>>
    /\ UNCHANGED nonSendVars

\* send, second section: self.save_to_history(message.clone()).await
SendHistory(s) ==
    /\ s.pc = "history"
    /\ message_history' = save_to_history(message_history, s.msg)
    /\ sending' = (sending \ {s}) \cup {[s EXCEPT !.pc = "count"]}
    /\ bLast' = BLast("send_history", s.msg.sender_id, 0, TRUE, "", s.msg)
    /\ UNCHANGED <<config, p2p_channels, receivers, stats, blocked, sends, sent, chan_queue, now>>
    /\ UNCHANGED nonSendVars

\* MessageBus::broadcast, its section on the stats
Broadcast(s) ==
    /\ s.pc = "count"
    /\ is_broadcast(s.msg)
    /\ stats' = [stats EXCEPT !.broadcast_messages = @ + 1]
    /\ sending' = (sending \ {s}) \cup {[s EXCEPT !.pc = "deliver"]}
    /\ bLast' = BLast("broadcast", s.msg.sender_id, 0, TRUE, "", s.msg)
    /\ UNCHANGED <<config, p2p_channels, receivers, message_history, blocked, sends, sent,
                   chan_queue, now>>
    /\ UNCHANGED nonSendVars

\* broadcast, self.broadcast_tx.send(message): Ok when the channel has a
\* receiver, and the call returns; Err when it has none
BroadcastSend(s) ==
    /\ s.pc = "deliver"
    /\ is_broadcast(s.msg)
    /\ IF \E h \in 1..Len(receivers) : Open(receivers[h])
       THEN /\ receivers' = [h \in 1..Len(receivers) |-> Subscribe(receivers[h], s.msg)]
            /\ sending' = sending \ {s}
            /\ bLast' = SendLast(0, TRUE, "", s.msg, s.at)
       ELSE /\ sending' = (sending \ {s}) \cup {[s EXCEPT !.pc = "failed", !.err = "no_receivers"]}
            /\ bLast' = BLast("broadcast_send", s.msg.sender_id, 0, FALSE, "no_receivers", s.msg)
            /\ UNCHANGED receivers
    /\ UNCHANGED <<config, p2p_channels, message_history, stats, blocked, sends, sent,
                   chan_queue, now>>
    /\ UNCHANGED nonSendVars

\* MessageBus::send_p2p, its section on the stats
SendP2p(s) ==
    /\ s.pc = "count"
    /\ ~is_broadcast(s.msg)
    /\ stats' = [stats EXCEPT !.p2p_messages = @ + 1]
    /\ sending' = (sending \ {s}) \cup {[s EXCEPT !.pc = "deliver"]}
    /\ bLast' = BLast("send_p2p", s.msg.sender_id, 0, TRUE, "", s.msg)
    /\ UNCHANGED <<config, p2p_channels, receivers, message_history, blocked, sends, sent,
                   chan_queue, now>>
    /\ UNCHANGED nonSendVars

\* send_p2p under the read lock of p2p_channels: channels.get(receiver_id) and
\* tx.send(message).await, up to the return of the call, to its wait for room
\* in the inbox, or to the failure it has to count
Lookup(s, rest) ==
    IF s.msg.receiver_id \in DOMAIN p2p_channels
    THEN LET h == p2p_channels[s.msg.receiver_id]
         IN  IF ~receivers[h].alive
             THEN /\ sending' = rest \cup {[s EXCEPT !.pc = "failed", !.rcv = h, !.err = "closed"]}
                  /\ bLast' = BLast("lookup", s.msg.sender_id, h, FALSE, "closed", s.msg)
                  /\ UNCHANGED <<receivers, blocked>>
             ELSE IF MustWait(h)
             THEN /\ sending' = rest
                  /\ blocked' = Append(blocked, Blocked(s.msg, h, FALSE))
                  /\ bLast' = SendLast(h, FALSE, "waiting", s.msg, s.at)
                  /\ UNCHANGED receivers
             ELSE /\ sending' = rest
                  /\ receivers' = [receivers EXCEPT ![h].p2p_rx = Append(@, s.msg)]
                  /\ bLast' = SendLast(h, TRUE, "", s.msg, s.at)
                  /\ UNCHANGED blocked
    ELSE /\ sending' = rest \cup {[s EXCEPT !.pc = "failed", !.err = "not_found"]}
         /\ bLast' = BLast("lookup", s.msg.sender_id, 0, FALSE, "not_found", s.msg)
         /\ UNCHANGED <<receivers, blocked>>

\* send_p2p reaches self.p2p_channels.read().await: the read lock is given
\* unless a writer waits for the lock, and then the send waits behind it
SendDeliver(s) ==
    /\ s.pc = "deliver"
    /\ ~is_broadcast(s.msg)
    /\ IF chan_queue = <<>>
       THEN /\ Lookup(s, sending \ {s})
            /\ UNCHANGED chan_queue
       ELSE /\ chan_queue' = Append(chan_queue, Queued("send", "", s))
            /\ sending' = sending \ {s}
            /\ bLast' = BLast("lookup", s.msg.sender_id, 0, FALSE, "waiting_lock", s.msg)
            /\ UNCHANGED <<receivers, blocked>>
    /\ UNCHANGED <<config, p2p_channels, message_history, stats, sends, sent, now>>
    /\ UNCHANGED nonSendVars

\* a send_p2p that was handed the read lock after its wait is polled
GrantReader(s) ==
    /\ s.pc = "granted"
    /\ Lookup([s EXCEPT !.pc = "deliver"], sending \ {s})
    /\ UNCHANGED <<config, p2p_channels, message_history, stats, sends, sent, chan_queue,
                   now>>
    /\ UNCHANGED nonSendVars

\* the rest of send_p2p for the waiting send blocked[i], polled again:
\* tx.send(..).await returns Err once the receiver is gone, and Ok with the
\* message in the slot the send was handed
SendResume(i) ==
    /\ i \in 1..Len(blocked)
    /\ LET h == blocked[i].rcv
           message == blocked[i].msg
       IN  \/ /\ ~receivers[h].alive
              /\ sending' = sending \cup {Sending(message, "failed", h, "closed", 0)}
              /\ bLast' = BLast("send_resume", message.sender_id, h, FALSE, "closed", message)
              /\ UNCHANGED receivers
           \/ /\ receivers[h].alive
              /\ blocked[i].granted
              /\ receivers' = [receivers EXCEPT ![h].p2p_rx = Append(@, message)]
              /\ bLast' = BLast("send_resume", message.sender_id, h, TRUE, "", message)
              /\ UNCHANGED sending
    /\ blocked' = RemoveAt(blocked, i)
    /\ UNCHANGED <<config, p2p_channels, message_history, stats, sends, sent, chan_queue, now>>
    /\ UNCHANGED nonSendVars

\* the failure arm of broadcast and of send_p2p:
\* self.stats.write().await.failed_deliveries += 1, and the call returns Err
SendFailed(s) ==
    /\ s.pc = "failed"
    /\ stats' = CountFailed(stats)
    /\ sending' = sending \ {s}
    /\ bLast' = SendLast(s.rcv, FALSE, s.err, s.msg, s.at)
    /\ UNCHANGED <<config, p2p_channels, receivers, message_history, blocked, sends, sent,
                   chan_queue, now>>
    /\ UNCHANGED nonSendVars

\* the sections of a send after its first
SendSteps ==
    \/ \E s \in sending : SendHistory(s)
    \/ \E s \in sending : Broadcast(s)
    \/ \E s \in sending : BroadcastSend(s)
    \/ \E s \in sending : SendP2p(s)
    \/ \E s \in sending : SendDeliver(s)
    \/ \E s \in sending : SendFailed(s)
    \/ \E i \in 1..Len(blocked) : SendResume(i)
    \/ \E s \in sending : GrantReader(s)

\* the second statement of register_agent, and the writers that waited
ChannelSteps ==
    \/ \E h \in 1..Len(receivers) : RegisterSubscribe(h)
    \/ GrantWriter

\* what is left of the select! of recv once one of its branches is disabled
DisableBranch(branches, branch) ==
    IF branches = "both" THEN (IF branch = "p2p" THEN "bc" ELSE "p2p") ELSE "none"

\* One step of MessageReceiver::recv on receiver h: a branch of the select!
\* whose future is ready completes. select! is not biased, so either ready
\* branch may be the one. A branch whose pattern does not match is disabled;
\* when none is left the else arm returns None. receivers[h].branches keeps
\* the branches still enabled in the pending call ("both": no call is pending,
\* or the pending call has all its branches). The outcomes of the step: the
\* receiver after it, whether recv returned (done) and what (ok, err, msg).
RecvOutcomes(h) ==
    LET rcv == receivers[h]
        return(r, ok, err, message) ==
            [rcv |-> [r EXCEPT !.branches = "both"], done |-> TRUE, ok |-> ok,
             err |-> err, msg |-> message]
        disable(r, branch, err) ==
            IF DisableBranch(rcv.branches, branch) = "none"
            THEN return(r, FALSE, "none", NoMessage)
            ELSE [rcv |-> [r EXCEPT !.branches = DisableBranch(rcv.branches, branch)],
                  done |-> FALSE, ok |-> FALSE, err |-> err, msg |-> NoMessage]
        \* Some(msg) = self.p2p_rx.recv()
        p2p == IF rcv.branches \notin {"both", "p2p"} THEN {}
               ELSE IF Len(rcv.p2p_rx) > 0
               THEN {return([rcv EXCEPT !.p2p_rx = Tail(@)], TRUE, "", Head(rcv.p2p_rx))}
               ELSE IF SenderDropped(p2p_channels, h)
               THEN {disable(rcv, "p2p", "p2p_closed")}
               ELSE {}
        \* Ok(msg) = self.broadcast_rx.recv()
        bc == IF rcv.branches \notin {"both", "bc"} THEN {}
              ELSE IF rcv.lagged
              THEN {disable([rcv EXCEPT !.lagged = FALSE], "bc", "lagged")}
              ELSE IF Len(rcv.broadcast_rx) > 0
              THEN LET message == Head(rcv.broadcast_rx)
                       r == [rcv EXCEPT !.broadcast_rx = Tail(@)]
                   IN  IF ~IsOwnBroadcast(message, rcv.agent_id)
                       THEN {return(r, TRUE, "", message)}
                       ELSE \* Box::pin(self.recv()).await: a new select!
                            {[rcv |-> [r EXCEPT !.branches = "both"], done |-> FALSE,
                              ok |-> FALSE, err |-> "own_broadcast", msg |-> message]}
              ELSE {}
    IN  p2p \cup bc

\* MessageReceiver::recv on receiver h, one step of it
Recv(h) ==
    /\ h \in 1..Len(receivers)
    /\ Open(receivers[h])
    /\ \E o \in RecvOutcomes(h) :
          /\ receivers' = [receivers EXCEPT ![h] = o.rcv]
          /\ blocked' = AfterRecv(h, o.rcv)
          /\ bLast' = BLast("recv", receivers[h].agent_id, h, o.ok, o.err, o.msg)
    /\ UNCHANGED <<p2p_channels, message_history, stats, sends, sent, now>>
    /\ UNCHANGED <<config, nonBusVars>>

\* MessageReceiver::try_recv on receiver h, called while no recv is pending
TryRecv(h) ==
    /\ h \in 1..Len(receivers)
    /\ Open(receivers[h])
    /\ receivers[h].branches = "both"
    /\ LET rcv == receivers[h]
           result(r, ok, err, message) ==
               /\ receivers' = [receivers EXCEPT ![h] = r]
               /\ blocked' = AfterRecv(h, r)
               /\ bLast' = BLast("try_recv", rcv.agent_id, h, ok, err, message)
       IN  IF Len(rcv.p2p_rx) > 0
           THEN result([rcv EXCEPT !.p2p_rx = Tail(@)], TRUE, "", Head(rcv.p2p_rx))
           ELSE IF rcv.lagged
           THEN result([rcv EXCEPT !.lagged = FALSE], FALSE, "lagged", NoMessage)
           ELSE IF Len(rcv.broadcast_rx) > 0
           THEN LET message == Head(rcv.broadcast_rx)
                    r == [rcv EXCEPT !.broadcast_rx = Tail(@)]
                IN  IF ~IsOwnBroadcast(message, rcv.agent_id)
                    THEN result(r, TRUE, "", message)
                    ELSE result(r, FALSE, "own_broadcast", message)
           ELSE result(rcv, FALSE, "none", NoMessage)
    /\ UNCHANGED <<p2p_channels, message_history, stats, sends, sent, now>>
    /\ UNCHANGED <<config, nonBusVars>>

\* the owner of receiver h drops it: its mpsc channel closes and its
\* broadcast subscription ends
DropReceiver(h) ==
    /\ h \in 1..Len(receivers)
    /\ Open(receivers[h])
    /\ receivers' = [receivers EXCEPT ![h] =
          [NewReceiver(receivers[h].agent_id) EXCEPT !.alive = FALSE]]
    /\ bLast' = BLast("drop_receiver", receivers[h].agent_id, h, TRUE, "", NoMessage)
    /\ UNCHANGED <<p2p_channels, message_history, stats, blocked, sends, sent, now>>
    /\ UNCHANGED <<config, nonBusVars>>

\* the messages handed to send: sender, receiver, type, priority, expires_at,
\* and the value Utc::now() has when send reads it (an expiry of 0 is not yet
\* past at 0 and past at 1)
MessageInputs ==
    {<<"a1", "a2", "TaskAssignment", PriorityNormal, NoExpiry, 0>>,
     <<"a1", "a2", "StatusUpdate", PriorityHigh, NoExpiry, 0>>,
     <<"a1", "a1", "TaskAssignment", PriorityNormal, NoExpiry, 0>>,
     <<"a1", "a2", "TaskAssignment", PriorityNormal, 0, 0>>,
     <<"a1", "a2", "TaskAssignment", PriorityNormal, 0, 1>>,
     <<"a1", NoReceiver, "TaskAssignment", PriorityNormal, NoExpiry, 0>>,
     <<"a1", NoReceiver, "Heartbeat", PriorityLow, NoExpiry, 0>>,
     <<"a1", NoReceiver, "TaskAssignment", PriorityNormal, 0, 1>>,
     <<"a2", NoReceiver, "StatusUpdate", PriorityHigh, NoExpiry, 0>>,
     <<"a2", "a1", "ResultNotification", PriorityNormal, NoExpiry, 0>>}

BusNext ==
    \/ \E a \in AgentIds : RegisterAgent(a)
    \/ \E a \in AgentIds : UnregisterAgent(a)
    \/ ChannelSteps
    \/ \E in \in MessageInputs : Send(in[1], in[2], in[3], in[4], in[5], in[6])
    \/ SendSteps
    \/ \E h \in 1..Len(receivers) : Recv(h)
    \/ \E h \in 1..Len(receivers) : TryRecv(h)
    \/ \E h \in 1..Len(receivers) : DropReceiver(h)

\* no send is between its call and its attempt to deliver, and no send of
\* sender_id waits for room in an inbox
SendsSettled(sender_id) ==
    /\ sending = {}
    /\ \A i \in DOMAIN chan_queue : chan_queue[i].op /= "send"
    /\ \A i \in 1..Len(blocked) : blocked[i].msg.sender_id /= sender_id

\* the bus with its sends made one after the other: a send is called once the
\* one before it has reached the channel, and once the sends of its sender
\* have returned
BusSerialNext ==
    \/ \E a \in AgentIds : RegisterAgent(a)
    \/ \E a \in AgentIds : UnregisterAgent(a)
    \/ ChannelSteps
    \/ \E in \in MessageInputs :
          SendsSettled(in[1]) /\ Send(in[1], in[2], in[3], in[4], in[5], in[6])
    \/ SendSteps
    \/ \E h \in 1..Len(receivers) : Recv(h)
    \/ \E h \in 1..Len(receivers) : TryRecv(h)
    \/ \E h \in 1..Len(receivers) : DropReceiver(h)

(***************************************************************************)
(* MessageReceiver::recv_filtered                                          *)
(***************************************************************************)
FilterInit ==
    /\ filters = <<>>
    /\ discarded = <<>>

\* a receiver that puts a message it does not return back into its inbox
AfterNoMatch_Requeue(rcv, message) == [rcv EXCEPT !.p2p_rx = Append(@, message)]

\* the receiver once recv_filtered found that the message recv gave it does
\* not match: the message is dropped and the loop calls recv again
AfterNoMatch(rcv, message) == rcv

\* recv_filtered is pending on receiver h
FilterPending(h) == h \in DOMAIN filters /\ filters[h].pending

\* the ids of the messages recv_filtered dropped on receiver h
DiscardedOn(h) == IF h \in DOMAIN discarded THEN discarded[h] ELSE {}

\* the filters handed to recv_filtered
FilterInputs ==
    {[sender_id |-> <<>>, message_types |-> <<(<<"StatusUpdate">>)>>, min_priority |-> <<>>],
     [sender_id |-> <<"a1">>, message_types |-> <<>>, min_priority |-> <<PriorityNormal>>]}

\* One step of MessageReceiver::recv_filtered(filter) on receiver h: a step of
\* the recv it is waiting in and, when that recv returns, the rest of the
\* loop body.
RecvFiltered(h, filter) ==
    /\ h \in 1..Len(receivers)
    /\ Open(receivers[h])
    /\ IF FilterPending(h) THEN filter = filters[h].filter
       ELSE receivers[h].branches = "both"
    /\ \E o \in RecvOutcomes(h) :
          /\ blocked' = AfterRecv(h, o.rcv)
          /\ LET last(ok, err) ==
                     BLast("recv_filtered", receivers[h].agent_id, h, ok, err, o.msg)
                 state(waiting) ==
                     MapInsert(filters, h, [filter |-> filter, pending |-> waiting])
             IN  IF ~o.done
                 THEN /\ receivers' = [receivers EXCEPT ![h] = o.rcv]
                      /\ filters' = state(TRUE)
                      /\ bLast' = last(FALSE, o.err)
                      /\ UNCHANGED discarded
                 ELSE IF ~o.ok
                 THEN /\ receivers' = [receivers EXCEPT ![h] = o.rcv]
                      /\ filters' = state(FALSE)
                      /\ bLast' = last(FALSE, "none")
                      /\ UNCHANGED discarded
                 ELSE IF MessageFilterMatches(filter, o.msg)
                 THEN /\ receivers' = [receivers EXCEPT ![h] = o.rcv]
                      /\ filters' = state(FALSE)
                      /\ bLast' = last(TRUE, "")
                      /\ UNCHANGED discarded
                 ELSE /\ receivers' = [receivers EXCEPT ![h] = AfterNoMatch(o.rcv, o.msg)]
                      /\ filters' = state(TRUE)
                      /\ discarded' = MapInsert(discarded, h, DiscardedOn(h) \cup {o.msg.id})
                      /\ bLast' = last(FALSE, "no_match")
    /\ UNCHANGED <<p2p_channels, message_history, stats, sends, sent, now>>
    /\ UNCHANGED <<config, nonFilterVars>>

\* recv on a receiver no recv_filtered is pending on
RecvAlone(h) ==
    /\ ~FilterPending(h)
    /\ Recv(h)

\* try_recv on a receiver no recv_filtered is pending on
TryRecvAlone(h) ==
    /\ ~FilterPending(h)
    /\ TryRecv(h)

\* the messages handed to send while a receiver filters
FilterMessageInputs ==
    {<<"a1", "a2", "TaskAssignment", PriorityNormal, NoExpiry, 0>>,
     <<"a1", "a2", "StatusUpdate", PriorityHigh, NoExpiry, 0>>,
     <<"a2", "a2", "Heartbeat", PriorityLow, NoExpiry, 0>>,
     <<"a1", NoReceiver, "Heartbeat", PriorityLow, NoExpiry, 0>>,
     <<"a2", NoReceiver, "StatusUpdate", PriorityHigh, NoExpiry, 0>>}

FilterNext ==
    \/ \E a \in AgentIds : RegisterAgent(a)
    \/ \E a \in AgentIds : UnregisterAgent(a)
    \/ ChannelSteps
    \/ \E in \in FilterMessageInputs : Send(in[1], in[2], in[3], in[4], in[5], in[6])
    \/ SendSteps
    \/ \E h \in 1..Len(receivers), filter \in FilterInputs : RecvFiltered(h, filter)
    \/ \E h \in 1..Len(receivers) : RecvAlone(h)
    \/ \E h \in 1..Len(receivers) : TryRecvAlone(h)

(***************************************************************************)
(* AgentManager                                                            *)
(***************************************************************************)
\* the workers handed to spawn_agent: id, type, capabilities, and what their
\* run() does ("returns": the default run of Planner, Executor, Verifier;
\* "loops": the endless loop of Master and Monitor)
WorkerInputs ==
    {<<"a1", "Executor", <<"TaskExecution">>, "returns">>,
     <<"a2", "Master", <<"TaskPlanning">>, "loops">>}

RunOf(id) == (CHOOSE w \in WorkerInputs : w[1] = id)[4]

\* the messages sent to the spawned agents through send_message and
\* broadcast_message
ManagerMessageInputs ==
    {<<"a2", "a1", "TaskAssignment", PriorityNormal, NoExpiry, 0>>,
     <<"a2", "a1", "Control(Stop)", PriorityHigh, NoExpiry, 0>>,
     <<"a2", NoReceiver, "StatusUpdate", PriorityNormal, NoExpiry, 0>>}

\* the worker as spawn_agent receives it
NewWorker == [initialized |-> FALSE, shutdowns |-> 0, processed |-> <<>>]

\* the state of agent_loop when tokio::spawn starts it on receiver rcv
NewDriver(rcv) ==
    [loop |-> "running", rcv |-> rcv, shutdown_rx |-> "pending",
     heartbeat |-> "running", run_task |-> "running", run_rx |-> FALSE]

\* mLast keeps what the last step of a spawn_agent or terminate_agent call
\* returned; rLast and bLast keep what the calls made on the registry and the
\* bus from outside the manager returned
MLast(op, id, ok, err) == [op |-> op, id |-> id, ok |-> ok, err |-> err]

ManagerInit ==
    /\ runtimes = <<>>
    /\ spawning = <<>>
    /\ terminating = <<>>
    /\ drivers = <<>>
    /\ workers = <<>>
    /\ mLast = MLast("new", "", TRUE, "")

\* spawn_agent up to the limit check, made under a read lock that is released
\* before initialize
SpawnCheck(id) ==
    /\ terminating = <<>>
    /\ id \notin DOMAIN workers
    /\ IF Cardinality(DOMAIN runtimes) >= MaxAgents
       THEN /\ mLast' = MLast("spawn_check", id, FALSE, "ResourceExhausted")
            /\ UNCHANGED <<spawning, workers>>
       ELSE /\ spawning' = MapInsert(spawning, id, "checked")
            /\ workers' = MapInsert(workers, id, NewWorker)
            /\ mLast' = MLast("spawn_check", id, TRUE, "")
    /\ UNCHANGED <<runtimes, terminating, drivers, now>>
    /\ UNCHANGED <<extraVars, queueVars, registryVars, busVars>>

\* the variables no manager step touches
restVars == <<queueVars, memoryVars, planVars, filterVars, listVars, dequeueVars, lockVars,
              poolVars>>

\* spawn_agent, agent.initialize(self.context.clone()).await
SpawnInitialize(id) ==
    /\ id \in DOMAIN spawning
    /\ spawning[id] = "checked"
    /\ workers' = [workers EXCEPT ![id].initialized = TRUE]
    /\ spawning' = [spawning EXCEPT ![id] = "initialized"]
    /\ mLast' = MLast("spawn_initialize", id, TRUE, "")
    /\ UNCHANGED <<runtimes, terminating, drivers, now>>
    /\ UNCHANGED <<extraVars, queueVars, registryVars, busVars>>

\* spawn_agent, self.message_bus.register_agent(agent_id.clone()).await up to
\* the end of its first statement or to its wait for the lock
SpawnRegisterAgent(id) ==
    /\ id \in DOMAIN spawning
    /\ spawning[id] = "initialized"
    /\ RegisterAgentLock(id)
    /\ spawning' = [spawning EXCEPT ![id] = "bus"]
    /\ mLast' = MLast("spawn_register_agent", id, TRUE, "")
    /\ UNCHANGED <<runtimes, terminating, drivers, workers, now>>
    /\ UNCHANGED <<config, message_history, stats, blocked, sends, sent, sending>>
    /\ UNCHANGED <<registryVars, stepVars, reaperVars, restVars>>

\* register_agent has returned a receiver for the id
HasReceiver(id) ==
    \E h \in 1..Len(receivers) : receivers[h].agent_id = id /\ receivers[h].subscribed

\* the receiver register_agent made for the id
ReceiverOf(id) == CHOOSE h \in 1..Len(receivers) : receivers[h].agent_id = id

\* spawn_agent once register_agent has returned: AgentInfo::new reads the
\* clock, and register is called and reaches self.agents.write().await
SpawnAgentInfo(id, agent_type, capabilities) ==
    /\ id \in DOMAIN spawning
    /\ spawning[id] = "bus"
    /\ HasReceiver(id)
    /\ writers' = Append(writers, Writer("register", 0,
                         NewAgentInfo(id, agent_type, capabilities, now), id))
    /\ spawning' = [spawning EXCEPT ![id] = "info"]
    /\ mLast' = MLast("spawn_agent_info", id, TRUE, "")
    /\ UNCHANGED <<runtimes, terminating, drivers, workers, now>>
    /\ UNCHANGED <<agents, capability_index, type_index, registrations, rLast>>
    /\ UNCHANGED <<busVars, sendVars, reaperVars, restVars>>

\* the register call of spawn_agent(id) that waits for the primary map
Registering(id) ==
    CHOOSE i \in DOMAIN writers : writers[i].by = id /\ writers[i].pc = 0

\* spawn_agent, self.registry.register(agent_info).await: the first statement
\* of register, the row made by AgentInfo::new goes into the primary map
SpawnRegister(id) ==
    /\ id \in DOMAIN spawning
    /\ spawning[id] = "info"
    /\ agents' = MapInsert(agents, id, writers[Registering(id)].info)
    /\ writers' = [writers EXCEPT ![Registering(id)].pc = 1]
    /\ spawning' = [spawning EXCEPT ![id] = "registry"]
    /\ mLast' = MLast("spawn_register", id, TRUE, "")
    /\ UNCHANGED <<runtimes, terminating, drivers, workers, now>>
    /\ UNCHANGED <<capability_index, type_index, registrations, rLast>>
    /\ UNCHANGED <<busVars, sendVars, reaperVars, restVars>>

\* spawn_agent once register has returned: tokio::spawn starts agent_loop on
\* the receiver
SpawnDriver(id) ==
    /\ id \in DOMAIN spawning
    /\ spawning[id] = "registry"
    /\ ~InFlight(id)
    /\ drivers' = MapInsert(drivers, id, NewDriver(ReceiverOf(id)))
    /\ spawning' = [spawning EXCEPT ![id] = "registered"]
    /\ mLast' = MLast("spawn_driver", id, TRUE, "")
    /\ UNCHANGED <<runtimes, terminating, workers, now>>
    /\ UNCHANGED <<extraVars, queueVars, registryVars, busVars>>

\* the end of spawn_agent: the runtime row is inserted under the write lock
SpawnInsert(id) ==
    /\ id \in DOMAIN spawning
    /\ spawning[id] = "registered"
    /\ terminating = <<>>
    /\ runtimes' = MapInsert(runtimes, id, [state |-> "Running"])
    /\ spawning' = MapRemove(spawning, id)
    /\ mLast' = MLast("spawn_agent", id, TRUE, "")
    /\ UNCHANGED <<terminating, drivers, workers, now>>
    /\ UNCHANGED <<extraVars, queueVars, registryVars, busVars>>

\* terminate_agent up to the wait for the driver: the write lock is taken, the
\* row removed and the shutdown signal sent; AgentNotFound when there is no row
TerminateBegin(agent_id) ==
    /\ terminating = <<>>
    /\ IF agent_id \in DOMAIN runtimes
       THEN /\ runtimes' = MapRemove(runtimes, agent_id)
            /\ drivers' = [drivers EXCEPT ![agent_id].shutdown_rx = "signalled"]
            /\ terminating' = <<agent_id, "waiting">>
            /\ mLast' = MLast("terminate_begin", agent_id, TRUE, "")
       ELSE /\ mLast' = MLast("terminate_begin", agent_id, FALSE, "AgentNotFound")
            /\ UNCHANGED <<runtimes, drivers, terminating>>
    /\ UNCHANGED <<spawning, workers, now>>
    /\ UNCHANGED <<extraVars, queueVars, registryVars, busVars>>

\* terminate_agent after its wait for the driver task, which ends when the
\* task has finished or when the 10 s of the timeout have passed:
\* self.registry.unregister(agent_id).await?, the first statement of
\* unregister
TerminateUnregister ==
    /\ terminating /= <<>>
    /\ terminating[2] = "waiting"
    /\ LET agent_id == terminating[1]
       IN  IF agent_id \in DOMAIN agents
           THEN /\ agents' = MapRemove(agents, agent_id)
                /\ writers' = Append(writers,
                                     Writer("unregister", 1, agents[agent_id], "terminate"))
                /\ terminating' = <<agent_id, "registry">>
                /\ mLast' = MLast("terminate_unregister", agent_id, TRUE, "")
           ELSE /\ terminating' = <<>>
                /\ mLast' = MLast("terminate_agent", agent_id, FALSE, "AgentNotFound")
                /\ UNCHANGED <<agents, writers>>
    /\ UNCHANGED <<runtimes, spawning, drivers, workers, now>>
    /\ UNCHANGED <<capability_index, type_index, registrations, rLast>>
    /\ UNCHANGED <<busVars, sendVars, reaperVars, restVars>>

\* terminate_agent once unregister has returned Ok:
\* self.message_bus.unregister_agent(agent_id).await?, and the return when
\* the lock of p2p_channels is given at once
TerminateUnregisterAgent ==
    /\ terminating /= <<>>
    /\ terminating[2] = "registry"
    /\ ~InFlight("terminate")
    /\ UnregisterAgentLock(terminating[1])
    /\ IF ChannelsFree
       THEN /\ terminating' = <<>>
            /\ mLast' = MLast("terminate_agent", terminating[1], TRUE, "")
       ELSE /\ terminating' = <<terminating[1], "bus">>
            /\ mLast' = MLast("terminate_unregister_agent", terminating[1], FALSE, "waiting")
    /\ UNCHANGED <<runtimes, spawning, drivers, workers, now>>
    /\ UNCHANGED <<config, message_history, stats, blocked, sends, sent, sending>>
    /\ UNCHANGED <<registryVars, stepVars, reaperVars, restVars>>

\* the unregister_agent of terminate_agent got the lock after its wait, and
\* terminate_agent returns
TerminateReturn ==
    /\ terminating /= <<>>
    /\ terminating[2] = "bus"
    /\ \A i \in DOMAIN chan_queue :
          ~(chan_queue[i].op = "unregister_agent" /\ chan_queue[i].agent = terminating[1])
    /\ terminating' = <<>>
    /\ mLast' = MLast("terminate_agent", terminating[1], TRUE, "")
    /\ UNCHANGED <<runtimes, spawning, drivers, workers, now>>
    /\ UNCHANGED <<extraVars, queueVars, registryVars, busVars>>

\* the shutdown arm of the select! of agent_loop and the cleanup after the
\* loop: heartbeat_handle.abort(), run_tx.send(()), and the MessageReceiver is
\* dropped with the task
DriverExit(id) ==
    /\ id \in DOMAIN drivers
    /\ drivers[id].loop = "running"
    /\ drivers[id].shutdown_rx = "signalled"
    /\ drivers' = [drivers EXCEPT ![id].loop = "exited",
                                  ![id].heartbeat = "aborted",
                                  ![id].run_rx = TRUE]
    /\ receivers' = [receivers EXCEPT ![drivers[id].rcv] =
          [NewReceiver(id) EXCEPT !.alive = FALSE]]
    /\ UNCHANGED <<runtimes, spawning, terminating, workers, mLast, now>>
    /\ UNCHANGED <<config, p2p_channels, message_history, stats, blocked, sends, sent, bLast>>
    /\ UNCHANGED <<extraVars, queueVars, registryVars>>

\* one round of the task of start_heartbeat_task: registry.heartbeat, and the
\* task ends when that fails
HeartbeatTask(id) ==
    /\ id \in DOMAIN drivers
    /\ drivers[id].heartbeat = "running"
    /\ IF id \in DOMAIN agents
       THEN /\ agents' = [agents EXCEPT ![id].last_heartbeat = now]
            /\ UNCHANGED drivers
       ELSE /\ drivers' = [drivers EXCEPT ![id].heartbeat = "stopped"]
            /\ UNCHANGED agents
    /\ UNCHANGED <<runtimes, spawning, terminating, workers, mLast, now>>
    /\ UNCHANGED <<capability_index, type_index, registrations, rLast>>
    /\ UNCHANGED <<extraVars, queueVars, busVars>>

\* the run task of agent_loop, first arm of its select!: agent.run() returns
\* and the task ends with the worker
RunReturns(id) ==
    /\ id \in DOMAIN drivers
    /\ drivers[id].run_task = "running"
    /\ RunOf(id) = "returns"
    /\ drivers' = [drivers EXCEPT ![id].run_task = "returned"]
    /\ UNCHANGED <<runtimes, spawning, terminating, workers, mLast, now>>
    /\ UNCHANGED <<extraVars, queueVars, registryVars, busVars>>

\* the run task of agent_loop, second arm of its select!: run_rx is signalled
\* and agent.shutdown() is called
RunStopped(id) ==
    /\ id \in DOMAIN drivers
    /\ drivers[id].run_task = "running"
    /\ drivers[id].run_rx
    /\ drivers' = [drivers EXCEPT ![id].run_task = "stopped"]
    /\ workers' = [workers EXCEPT ![id].shutdowns = @ + 1]
    /\ UNCHANGED <<runtimes, spawning, terminating, mLast, now>>
    /\ UNCHANGED <<extraVars, queueVars, registryVars, busVars>>

\* the receive arm of the select! of agent_loop: the message is taken from the
\* receiver and logged
DriverRecv(id) ==
    /\ id \in DOMAIN drivers
    /\ drivers[id].loop = "running"
    /\ Recv(drivers[id].rcv)

\* spawn_agent and terminate_agent beside the heartbeat tasks and the reaper
\* of the registry; nothing is sent on the bus
ManagerNext ==
    \/ \E w \in WorkerInputs : SpawnCheck(w[1])
    \/ \E id \in AgentIds : SpawnInitialize(id)
    \/ \E id \in AgentIds : SpawnRegisterAgent(id)
    \/ \E h \in 1..Len(receivers) : RegisterSubscribe(h)
    \/ \E w \in WorkerInputs : SpawnAgentInfo(w[1], w[2], w[3])
    \/ \E id \in AgentIds : SpawnRegister(id)
    \/ \E i \in DOMAIN writers : RegisterIndexCapabilities(i)
    \/ \E i \in DOMAIN writers : RegisterIndexType(i)
    \/ \E id \in AgentIds : SpawnDriver(id)
    \/ \E id \in AgentIds : SpawnInsert(id)
    \/ \E id \in AgentIds : TerminateBegin(id)
    \/ TerminateUnregister
    \/ \E i \in DOMAIN writers : UnregisterIndexCapabilities(i)
    \/ \E i \in DOMAIN writers : UnregisterIndexType(i)
    \/ TerminateUnregisterAgent
    \/ \E id \in AgentIds : DriverExit(id)
    \/ \E id \in AgentIds : HeartbeatTask(id)
    \/ CleanupCollect
    \/ \E id \in AgentIds : CleanupUnregisterOne(id)
    \/ CleanupReturn
    \/ RegistryTick

\* the spawned drivers with the messages sent to them, beside spawn_agent and
\* terminate_agent
DriverNext ==
    \/ \E w \in WorkerInputs : SpawnCheck(w[1])
    \/ \E id \in AgentIds : SpawnInitialize(id)
    \/ \E id \in AgentIds : SpawnRegisterAgent(id)
    \/ ChannelSteps
    \/ \E w \in WorkerInputs : SpawnAgentInfo(w[1], w[2], w[3])
    \/ \E id \in AgentIds : SpawnRegister(id)
    \/ \E i \in DOMAIN writers : RegisterIndexCapabilities(i)
    \/ \E i \in DOMAIN writers : RegisterIndexType(i)
    \/ \E id \in AgentIds : SpawnDriver(id)
    \/ \E id \in AgentIds : SpawnInsert(id)
    \/ \E id \in AgentIds : TerminateBegin(id)
    \/ TerminateUnregister
    \/ \E i \in DOMAIN writers : UnregisterIndexCapabilities(i)
    \/ \E i \in DOMAIN writers : UnregisterIndexType(i)
    \/ TerminateUnregisterAgent
    \/ TerminateReturn
    \/ \E id \in AgentIds : DriverExit(id)
    \/ \E id \in AgentIds : RunReturns(id)
    \/ \E id \in AgentIds : RunStopped(id)
    \/ \E id \in AgentIds : DriverRecv(id)
    \/ \E in \in ManagerMessageInputs : Send(in[1], in[2], in[3], in[4], in[5], in[6])
    \/ SendSteps

(***************************************************************************)
(* MemoryPool                                                              *)
(***************************************************************************)
MemoryKeys == {"k1", "k2"}
MemoryAgents == {"a1", "a2"}

\* MemoryEntry::new(key, value, ..) at instant t, followed by with_ttl when
\* ttl is <<secs>>; an Option is <<>> for None and <<x>> for Some(x)
NewMemoryEntry(key, value, t, ttl) ==
    [key |-> key, value |-> value, created_at |-> t, updated_at |-> t, ttl |-> ttl]

NoEntry == NewMemoryEntry("", 0, 0, <<>>)

\* chrono's Duration::num_seconds for a non-negative duration of d ticks: the
\* whole seconds, the fraction dropped
NumSeconds(d) == d \div TicksPerSecond

\* an is_expired measuring the age from updated_at
MemoryEntryIsExpired_FromUpdate(entry, t) ==
    IF entry.ttl /= <<>> THEN NumSeconds(t - entry.updated_at) > entry.ttl[1] ELSE FALSE

\* MemoryEntry::is_expired while Utc::now() is t
MemoryEntryIsExpired(entry, t) ==
    IF entry.ttl /= <<>> THEN NumSeconds(t - entry.created_at) > entry.ttl[1] ELSE FALSE

\* MemoryEntry::update at instant t
MemoryEntryUpdate(entry, value, t) == [entry EXCEPT !.value = value, !.updated_at = t]

\* a capacity check that does not look whether the key is already stored
IsFull_AnyKey(memory, max, key) == Cardinality(DOMAIN memory) >= max

\* memory.len() >= max && !memory.contains_key(&entry.key)
IsFull(memory, max, key) == Cardinality(DOMAIN memory) >= max /\ key \notin DOMAIN memory

\* memory.get(key).cloned().filter(|entry| !entry.is_expired()):
\* <<>> for None, <<entry>> for Some(entry)
GetFiltered(memory, key, t) ==
    IF key \in DOMAIN memory /\ ~MemoryEntryIsExpired(memory[key], t)
    THEN <<memory[key]>>
    ELSE <<>>

\* the keys of the expired entries of one tier
ExpiredKeys(memory, t) == {k \in DOMAIN memory : MemoryEntryIsExpired(memory[k], t)}

\* one tier after the loop of cleanup_expired removed its expired keys
RemoveExpired(memory, t) == [k \in (DOMAIN memory) \ ExpiredKeys(memory, t) |-> memory[k]]

PLast(op, agent, key, ok, err, entry, count) ==
    [op |-> op, agent |-> agent, key |-> key, ok |-> ok, err |-> err,
     entry |-> entry, count |-> count, at |-> mclock]

\* cleanup_expired in progress: pc is "agents" once the global tier is done
\* and "scanning" while it holds the lock of agent_memory; todo holds the agents
\* whose map the loop has not reached yet
Cleaning(pc, count, todo) == [pc |-> pc, count |-> count, todo |-> todo]

NotCleaning == Cleaning("idle", 0, {})

\* the entry a caller got from get_global, and the value it gives to update
Updating(pc, entry, value) == [pc |-> pc, entry |-> entry, value |-> value]

PoolInit ==
    /\ updating = <<>>
    /\ cleaning = NotCleaning

\* no cleanup_expired holds the write lock of global_memory
GlobalMemoryFree == cleaning.pc = "idle"

\* no cleanup_expired holds the write lock of agent_memory
AgentMemoryFree == cleaning.pc /= "scanning"

MemoryInit ==
    /\ global_memory = <<>>
    /\ agent_memory = <<>>
    /\ mclock = 0
    /\ sets = 0
    /\ pLast = [PLast("new", "", "", TRUE, "", NoEntry, 0) EXCEPT !.at = 0]

\* MemoryPool::set_global, its lock section
SetGlobalEntry(entry) ==
    /\ sets < MaxSets
    /\ GlobalMemoryFree
    /\ sets' = sets + 1
    /\ IF IsFull(global_memory, MaxGlobalEntries, entry.key)
       THEN /\ pLast' = PLast("set_global", "", entry.key, FALSE, "ResourceExhausted", entry, 0)
            /\ UNCHANGED global_memory
       ELSE /\ global_memory' = MapInsert(global_memory, entry.key, entry)
            /\ pLast' = PLast("set_global", "", entry.key, TRUE, "", entry, 0)

\* MemoryPool::set_global(entry) of an entry its caller made with
\* MemoryEntry::new
SetGlobal(entry) ==
    /\ SetGlobalEntry(entry)
    /\ UNCHANGED <<agent_memory, mclock>>
    /\ UNCHANGED nonMemoryVars

\* a caller that changes a stored value, its first call: get_global(key)
\* returns Some(entry)
UpdateGet(key, value) ==
    /\ updating = <<>>
    /\ GlobalMemoryFree
    /\ GetFiltered(global_memory, key, mclock) /= <<>>
    /\ LET entry == GetFiltered(global_memory, key, mclock)[1]
       IN  /\ updating' = <<Updating("got", entry, value)>>
           /\ pLast' = PLast("get_global", "", key, TRUE, "", entry, 0)
    /\ UNCHANGED <<global_memory, agent_memory, mclock, sets, cleaning>>
    /\ UNCHANGED nonPoolVars

\* that caller calls MemoryEntry::update on its copy of the entry
UpdateEntry ==
    /\ updating /= <<>>
    /\ updating[1].pc = "got"
    /\ LET entry == MemoryEntryUpdate(updating[1].entry, updating[1].value, mclock)
       IN  /\ updating' = <<Updating("updated", entry, updating[1].value)>>
           /\ pLast' = PLast("update", "", entry.key, TRUE, "", entry, 0)
    /\ UNCHANGED <<global_memory, agent_memory, mclock, sets, cleaning>>
    /\ UNCHANGED nonPoolVars

\* that caller hands its copy back: set_global(entry)
UpdateSet ==
    /\ updating /= <<>>
    /\ updating[1].pc = "updated"
    /\ SetGlobalEntry(updating[1].entry)
    /\ updating' = <<>>
    /\ UNCHANGED <<agent_memory, mclock, cleaning>>
    /\ UNCHANGED nonPoolVars

\* MemoryPool::get_global
GetGlobal(key) ==
    /\ GlobalMemoryFree
    /\ LET got == GetFiltered(global_memory, key, mclock)
       IN  pLast' = IF got /= <<>>
                    THEN PLast("get_global", "", key, TRUE, "", got[1], 0)
                    ELSE PLast("get_global", "", key, FALSE, "", NoEntry, 0)
    /\ UNCHANGED <<global_memory, agent_memory, mclock, sets>>
    /\ UNCHANGED nonMemoryVars

\* MemoryPool::set_agent: the map of the agent is created before the capacity
\* check
SetAgent(agent_id, entry) ==
    /\ sets < MaxSets
    /\ AgentMemoryFree
    /\ sets' = sets + 1
    /\ LET tiers == IF agent_id \in DOMAIN agent_memory
                    THEN agent_memory
                    ELSE MapInsert(agent_memory, agent_id, <<>>)
       IN  IF IsFull(tiers[agent_id], MaxAgentEntries, entry.key)
           THEN /\ agent_memory' = tiers
                /\ pLast' = PLast("set_agent", agent_id, entry.key, FALSE,
                                  "ResourceExhausted", entry, 0)
           ELSE /\ agent_memory' = [tiers EXCEPT ![agent_id] = MapInsert(@, entry.key, entry)]
                /\ pLast' = PLast("set_agent", agent_id, entry.key, TRUE, "", entry, 0)
    /\ UNCHANGED <<global_memory, mclock>>
    /\ UNCHANGED nonMemoryVars

\* MemoryPool::get_agent
GetAgent(agent_id, key) ==
    /\ AgentMemoryFree
    /\ LET got == IF agent_id \in DOMAIN agent_memory
                  THEN GetFiltered(agent_memory[agent_id], key, mclock)
                  ELSE <<>>
       IN  pLast' = IF got /= <<>>
                    THEN PLast("get_agent", agent_id, key, TRUE, "", got[1], 0)
                    ELSE PLast("get_agent", agent_id, key, FALSE, "", NoEntry, 0)
    /\ UNCHANGED <<global_memory, agent_memory, mclock, sets>>
    /\ UNCHANGED nonMemoryVars

\* MemoryPool::delete_global
DeleteGlobal(key) ==
    /\ GlobalMemoryFree
    /\ global_memory' = MapRemove(global_memory, key)
    /\ pLast' = PLast("delete_global", "", key, TRUE, "", NoEntry, 0)
    /\ UNCHANGED <<agent_memory, mclock, sets>>
    /\ UNCHANGED nonMemoryVars

\* MemoryPool::delete_agent
DeleteAgent(agent_id, key) ==
    /\ AgentMemoryFree
    /\ agent_memory' = IF agent_id \in DOMAIN agent_memory
                       THEN [agent_memory EXCEPT ![agent_id] = MapRemove(@, key)]
                       ELSE agent_memory
    /\ pLast' = PLast("delete_agent", agent_id, key, TRUE, "", NoEntry, 0)
    /\ UNCHANGED <<global_memory, mclock, sets>>
    /\ UNCHANGED nonMemoryVars

\* MemoryPool::clear_agent
ClearAgent(agent_id) ==
    /\ AgentMemoryFree
    /\ agent_memory' = MapRemove(agent_memory, agent_id)
    /\ pLast' = PLast("clear_agent", agent_id, "", TRUE, "", NoEntry, 0)
    /\ UNCHANGED <<global_memory, mclock, sets>>
    /\ UNCHANGED nonMemoryVars

\* MemoryPool::cleanup_expired, called directly or by the task of
\* start_cleanup_task, up to self.agent_memory.write().await: the expired
\* entries of the global tier are removed under its write lock, which the
\* call keeps until it returns
MemoryCleanupGlobal ==
    /\ cleaning.pc = "idle"
    /\ global_memory' = RemoveExpired(global_memory, mclock)
    /\ cleaning' = Cleaning("agents", Cardinality(ExpiredKeys(global_memory, mclock)), {})
    /\ pLast' = PLast("cleanup_global", "", "", TRUE, "", NoEntry,
                      Cardinality(ExpiredKeys(global_memory, mclock)))
    /\ UNCHANGED <<agent_memory, mclock, sets, updating>>
    /\ UNCHANGED nonPoolVars

\* the agents the loop of cleanup_expired has not reached yet
CleanupTodo == IF cleaning.pc = "agents" THEN DOMAIN agent_memory ELSE cleaning.todo

\* cleanup_expired under the write lock of agent_memory, which it gets before
\* the first round: one round of the loop over agent_memory.iter_mut(), in the
\* order the map gives; the expired entries of one agent are removed
MemoryCleanupAgent(agent_id) ==
    /\ cleaning.pc \in {"agents", "scanning"}
    /\ agent_id \in CleanupTodo
    /\ agent_memory' = [agent_memory EXCEPT ![agent_id] = RemoveExpired(@, mclock)]
    /\ cleaning' = Cleaning("scanning",
                            cleaning.count
                               + Cardinality(ExpiredKeys(agent_memory[agent_id], mclock)),
                            CleanupTodo \ {agent_id})
    /\ pLast' = PLast("cleanup_agent", agent_id, "", TRUE, "", NoEntry,
                      Cardinality(ExpiredKeys(agent_memory[agent_id], mclock)))
    /\ UNCHANGED <<global_memory, mclock, sets, updating>>
    /\ UNCHANGED nonPoolVars

\* the loop is over and cleanup_expired returns count; pLast.count carries the
\* returned number
MemoryCleanupReturn ==
    /\ cleaning.pc \in {"agents", "scanning"}
    /\ CleanupTodo = {}
    /\ cleaning' = NotCleaning
    /\ pLast' = PLast("cleanup_expired", "", "", TRUE, "", NoEntry, cleaning.count)
    /\ UNCHANGED <<global_memory, agent_memory, mclock, sets, updating>>
    /\ UNCHANGED nonPoolVars

\* time passes
MemoryTick ==
    /\ mclock < MaxClock
    /\ mclock' = mclock + 1
    /\ UNCHANGED <<global_memory, agent_memory, sets, pLast>>
    /\ UNCHANGED nonMemoryVars

\* the entries handed to set: key, value, ttl in seconds
MemoryInputs ==
    {<<"k1", 1, <<1>>>>,
     <<"k2", 1, <<>>>>}

\* the entries handed to set_agent: agent id, key, value, ttl in seconds
AgentMemoryInputs ==
    {<<"a1", "k1", 1, <<1>>>>,
     <<"a1", "k2", 1, <<>>>>,
     <<"a2", "k1", 2, <<1>>>>}

\* the entries a caller hands to set as key, value and ttl: each made by
\* MemoryEntry::new at a moment up to the one the write lock is given to the
\* call
EntryInputs(key, value, ttl) == {NewMemoryEntry(key, value, t, ttl) : t \in 0..mclock}

\* the values handed to MemoryEntry::update
MemoryValues == {3}

MemoryNext ==
    \/ \E in \in MemoryInputs : \E entry \in EntryInputs(in[1], in[2], in[3]) :
          SetGlobal(entry)
    \/ \E key \in MemoryKeys, value \in MemoryValues : UpdateGet(key, value)
    \/ UpdateEntry
    \/ UpdateSet
    \/ \E key \in MemoryKeys : GetGlobal(key)
    \/ \E in \in AgentMemoryInputs : \E entry \in EntryInputs(in[2], in[3], in[4]) :
          SetAgent(in[1], entry)
    \/ \E a \in MemoryAgents, key \in MemoryKeys : GetAgent(a, key)
    \/ \E key \in MemoryKeys : DeleteGlobal(key)
    \/ \E a \in MemoryAgents, key \in MemoryKeys : DeleteAgent(a, key)
    \/ \E a \in MemoryAgents : ClearAgent(a)
    \/ MemoryCleanupGlobal
    \/ \E a \in MemoryAgents : MemoryCleanupAgent(a)
    \/ MemoryCleanupReturn
    \/ MemoryTick

\* ---- dequeue called by several callers at once ----
Callers == {"c1", "c2"}

\* the position of a caller in dequeue and the index its scan found; taken
\* lists the tasks returned, with the callers waiting at that moment
Dequeuer(pc, found) == [pc |-> pc, found |-> found]

DequeueInit ==
    /\ dequeuers = [c \in Callers |-> Dequeuer("idle", <<"", 0>>)]
    /\ taken = <<>>

\* no caller holds the write guard of pending
QueueLocksFree == \A c \in Callers : dequeuers[c].pc \in {"idle", "waiting"}

\* no caller holds the read guard of in_progress, no mark_completed its
\* write guard
InProgressFree ==
    /\ \A c \in Callers : dequeuers[c].pc \in {"idle", "waiting", "pending"}
    /\ marking = <<>>

\* dequeue is called and waits at self.pending.write().await
DequeueCall(c) ==
    /\ dequeuers[c].pc = "idle"
    /\ dequeuers' = [dequeuers EXCEPT ![c] = Dequeuer("waiting", <<"", 0>>)]
    /\ UNCHANGED <<queueVars, taken, now>>
    /\ UNCHANGED nonDequeueVars

\* the guard of pending shared by callers, as a read lock would be
DequeueLock_Shared(c) ==
    /\ dequeuers[c].pc = "waiting"
    /\ dequeuers' = [dequeuers EXCEPT ![c] = Dequeuer("pending", <<"", 0>>)]
    /\ UNCHANGED <<queueVars, taken, now>>
    /\ UNCHANGED nonDequeueVars

\* pending.write() is granted
DequeueLock(c) ==
    /\ dequeuers[c].pc = "waiting"
    /\ QueueLocksFree
    /\ dequeuers' = [dequeuers EXCEPT ![c] = Dequeuer("pending", <<"", 0>>)]
    /\ UNCHANGED <<queueVars, taken, now>>
    /\ UNCHANGED nonDequeueVars

\* in_progress.read() and completed.read() are granted
DequeueRead(c) ==
    /\ dequeuers[c].pc = "pending"
    /\ marking = <<>>
    /\ dequeuers' = [dequeuers EXCEPT ![c] = Dequeuer("locked", <<"", 0>>)]
    /\ UNCHANGED <<queueVars, taken, now>>
    /\ UNCHANGED nonDequeueVars

\* the loops of dequeue up to index = Some(i)
DequeueFind(c) ==
    /\ dequeuers[c].pc = "locked"
    /\ dequeuers' = [dequeuers EXCEPT ![c] =
                        Dequeuer("found", DequeueScan(pending, 1, in_progress, completed))]
    /\ UNCHANGED <<queueVars, taken, now>>
    /\ UNCHANGED nonDequeueVars

\* return queue.remove(i), or None; the guards are dropped
DequeueRemove(c) ==
    /\ dequeuers[c].pc = "found"
    /\ LET found == dequeuers[c].found
       IN  IF found[2] /= 0 /\ found[2] <= Len(pending[found[1]])
           THEN LET task == pending[found[1]][found[2]]
                IN  /\ pending' = [pending EXCEPT ![found[1]] = RemoveAt(@, found[2])]
                    /\ active_tasks' = active_tasks \cup {task}
                    /\ qLast' = QLast("dequeue", task.id, TRUE, task)
                    /\ taken' = Append(taken,
                                       [caller |-> c, task |-> task,
                                        waiting |-> {d \in Callers :
                                                        dequeuers[d].pc = "waiting"}])
           ELSE /\ UNCHANGED <<pending, active_tasks, taken>>
                /\ qLast' = QLast("dequeue", 0, FALSE, NoTask)
    /\ dequeuers' = [dequeuers EXCEPT ![c] = Dequeuer("idle", <<"", 0>>)]
    /\ UNCHANGED <<in_progress, completed, failed, dependencies, next_task, enqueuing,
                   marking, dequeue_wait, now>>
    /\ UNCHANGED nonDequeueVars

\* the tasks enqueued beside the callers: one without dependencies, one that
\* waits for a task of its own band, one that waits for the first task
DequeueInputs ==
    {<<"Critical", <<>>, NoDeadline>>,
     <<"Critical", <<2>>, NoDeadline>>,
     <<"High", <<1>>, NoDeadline>>}

\* the lock sections on pending run only while no caller of dequeue holds
\* its write guard, those on in_progress only while no caller holds its read
\* guard; a mark_completed between its sections keeps the callers of dequeue
\* from their read guards, so its later sections find completed unlocked
DequeueNext ==
    \/ \E c \in Callers : DequeueCall(c)
    \/ \E c \in Callers : DequeueLock(c)
    \/ \E c \in Callers : DequeueRead(c)
    \/ \E c \in Callers : DequeueFind(c)
    \/ \E c \in Callers : DequeueRemove(c)
    \/ (QueueLocksFree /\ \E in \in {i \in DequeueInputs : i[2] = <<>>} :
                              Enqueue(in[1], in[3]))
    \/ \E in \in DequeueInputs : EnqueueDependencies(in[1], in[2], in[3])
    \/ (QueueLocksFree /\ \E task \in enqueuing : EnqueuePending(task))
    \/ (InProgressFree /\ \E task \in active_tasks : MarkInProgress(task))
    \/ (InProgressFree /\ \E id \in MarkIds : MarkCompleted(id))
    \/ MarkCompletedPush
    \/ MarkCompletedDependencies

\* ---- cleanup_dead_agents beside other callers of the registry ----
\* ---- the key listings ----
Listed(op, agent, keys) == [op |-> op, agent |-> agent, keys |-> keys]

ListInit == listed = Listed("none", "", {})

\* MemoryPool::list_global_keys
ListGlobalKeys ==
    /\ GlobalMemoryFree
    /\ listed' = Listed("list_global_keys", "", DOMAIN global_memory)
    /\ pLast' = PLast("list_global_keys", "", "", TRUE, "", NoEntry,
                      Cardinality(DOMAIN global_memory))
    /\ UNCHANGED <<global_memory, agent_memory, mclock, sets>>
    /\ UNCHANGED nonListVars

\* MemoryPool::list_agent_keys
ListAgentKeys(agent_id) ==
    /\ AgentMemoryFree
    /\ LET keys == IF agent_id \in DOMAIN agent_memory
                   THEN DOMAIN agent_memory[agent_id]
                   ELSE {}
       IN  /\ listed' = Listed("list_agent_keys", agent_id, keys)
           /\ pLast' = PLast("list_agent_keys", agent_id, "", TRUE, "", NoEntry,
                             Cardinality(keys))
    /\ UNCHANGED <<global_memory, agent_memory, mclock, sets>>
    /\ UNCHANGED nonListVars

ListingNext ==
    \/ \E in \in MemoryInputs : \E entry \in EntryInputs(in[1], in[2], in[3]) :
          SetGlobal(entry)
    \/ \E in \in AgentMemoryInputs : \E entry \in EntryInputs(in[2], in[3], in[4]) :
          SetAgent(in[1], entry)
    \/ ListGlobalKeys
    \/ \E a \in MemoryAgents : ListAgentKeys(a)
    \/ MemoryTick

(***************************************************************************)
(* Agent: the plan loop                                                    *)
(***************************************************************************)
NoTool == "none"

\* an AgentStep as the planner's JSON gives it: status and is_succeeded take
\* their serde defaults
NewStep(step_id, action, tool) ==
    [step_id |-> step_id, action |-> action, tool |-> tool, status |-> "Pending",
     is_succeeded |-> FALSE, error_reason |-> FALSE]

\* what the world answers to an execution: the MCP tool call, or the read of
\* the user's line, works or fails
Outcomes == {"works", "fails"}

\* Executor::execute: ok is Ok(..) against Err(..), success the field of the
\* StepResult
Execute(step, outcome) ==
    IF step.action = "call_tool"
    THEN IF step.tool /= NoTool
         THEN IF outcome = "works"
              THEN [ok |-> TRUE, success |-> TRUE]
              ELSE [ok |-> TRUE, success |-> FALSE]
         ELSE [ok |-> FALSE, success |-> FALSE]
    ELSE IF step.action = "ask_user"
    THEN IF outcome = "works"
         THEN [ok |-> TRUE, success |-> TRUE]
         ELSE [ok |-> FALSE, success |-> FALSE]
    ELSE [ok |-> FALSE, success |-> FALSE]

\* AgentState::get_step_status: "absent" for None
get_step_status(status, step_id) ==
    IF step_id \in DOMAIN status THEN status[step_id] ELSE "absent"

\* a search that keeps the last step it can select
RECURSIVE FindPending_Last(_, _, _)
FindPending_Last(steps, i, status) ==
    IF i > Len(steps) THEN 0
    ELSE LET later == FindPending_Last(steps, i + 1, status)
         IN  IF later /= 0 THEN later
             ELSE IF get_step_status(status, steps[i].step_id) \in {"Pending", "absent"}
             THEN i
             ELSE 0

\* a search that gives up at the first step it cannot select
FindPending_HeadOnly(steps, i, status) ==
    IF i > Len(steps) THEN 0
    ELSE IF get_step_status(status, steps[i].step_id) \in {"Pending", "absent"} THEN i
    ELSE 0

\* self.plan.steps.iter().find(..) of run_loop, from index i: the index of the
\* first step whose recorded status is Pending or None, 0 when there is none
RECURSIVE FindPending(_, _, _)
FindPending(steps, i, status) ==
    IF i > Len(steps) THEN 0
    ELSE IF get_step_status(status, steps[i].step_id) \in {"Pending", "absent"} THEN i
    ELSE FindPending(steps, i + 1, status)

\* self.plan.steps.iter_mut().find(|s| s.step_id == step_id), from index i
RECURSIVE FindById(_, _, _)
FindById(steps, i, step_id) ==
    IF i > Len(steps) THEN 0
    ELSE IF steps[i].step_id = step_id THEN i
    ELSE FindById(steps, i + 1, step_id)

\* the plans handed to Agent::new: step id, action, tool of every step
PlanInputs ==
    {<<>>,
     <<<<1, "call_tool", "search">>, <<2, "ask_user", NoTool>>, <<3, "call_tool", "search">>>>,
     <<<<1, "call_tool", NoTool>>, <<2, "call_tool", "search">>>>,
     <<<<1, "ask_user", NoTool>>, <<2, "summarize", NoTool>>, <<3, "ask_user", NoTool>>>>,
     <<<<2, "ask_user", NoTool>>, <<1, "call_tool", "search">>>>,
     <<<<1, "call_tool", "search">>, <<2, "call_tool", NoTool>>, <<3, "ask_user", NoTool>>>>,
     <<<<1, "call_tool", "search">>, <<1, "ask_user", NoTool>>, <<2, "call_tool", "search">>>>}

\* plans that were serialized after a run and are handed to Agent::new
\* again: step id, action, tool and the status field of every step
ResumedPlanInputs ==
    {<<<<1, "call_tool", "search", "Done">>, <<2, "ask_user", NoTool, "Pending">>>>,
     <<<<1, "ask_user", NoTool, "Failed">>, <<2, "call_tool", "search", "Pending">>>>}

ALast(op, index, outcome, ok, success) ==
    [op |-> op, index |-> index, outcome |-> outcome, ok |-> ok, success |-> success]

\* no Agent has been built yet
PlanInit ==
    /\ plan = <<>>
    /\ step_status = <<>>
    /\ step_results = <<>>
    /\ loop_pc = "none"
    /\ current_step = 0
    /\ executed = <<>>
    /\ runs = 0
    /\ aLast = ALast("none", 0, "", TRUE, TRUE)

\* Agent::new(plan): the plan as given, an empty AgentState
AgentNew(in) ==
    /\ loop_pc = "none"
    /\ plan' = [i \in 1..Len(in) |-> NewStep(in[i][1], in[i][2], in[i][3])]
    /\ step_status' = <<>>
    /\ step_results' = <<>>
    /\ loop_pc' = "idle"
    /\ aLast' = ALast("new", 0, "", TRUE, TRUE)
    /\ UNCHANGED <<current_step, executed, runs>>
    /\ UNCHANGED nonPlanVars

\* Agent::new(plan) with a plan whose steps carry a status: the plan as given,
\* an empty AgentState
AgentNewResumed(in) ==
    /\ loop_pc = "none"
    /\ plan' = [i \in 1..Len(in) |->
                  [NewStep(in[i][1], in[i][2], in[i][3]) EXCEPT
                      !.status = in[i][4], !.is_succeeded = (in[i][4] = "Done"),
                      !.error_reason = (in[i][4] = "Failed")]]
    /\ step_status' = <<>>
    /\ step_results' = <<>>
    /\ loop_pc' = "idle"
    /\ aLast' = ALast("new", 0, "", TRUE, TRUE)
    /\ UNCHANGED <<current_step, executed, runs>>
    /\ UNCHANGED nonPlanVars

\* run_loop is called
RunLoopStart ==
    /\ loop_pc \in {"idle", "returned"}
    /\ runs < MaxRuns
    /\ runs' = runs + 1
    /\ loop_pc' = "select"
    /\ UNCHANGED <<plan, step_status, step_results, current_step, executed, aLast>>
    /\ UNCHANGED nonPlanVars

\* an iteration of run_loop up to the call of execute: the next step is
\* looked up, announced and set to Executing; the loop ends when there is none
RunLoopSelect ==
    /\ loop_pc = "select"
    /\ LET i == FindPending(plan, 1, step_status)
       IN  IF i /= 0
           THEN /\ step_status' = MapInsert(step_status, plan[i].step_id, "Executing")
                /\ executed' = Append(executed, i)
                /\ current_step' = i
                /\ loop_pc' = "execute"
           ELSE /\ loop_pc' = "returned"
                /\ UNCHANGED <<step_status, executed, current_step>>
    /\ UNCHANGED <<plan, step_results, runs, aLast>>
    /\ UNCHANGED nonPlanVars

\* the rest of the iteration: execute returns and its result is recorded
RunLoopExecute(outcome) ==
    /\ loop_pc = "execute"
    /\ LET step_id == plan[current_step].step_id
           result == Execute(plan[current_step], outcome)
           k == FindById(plan, 1, step_id)
       IN  /\ aLast' = ALast("execute", current_step, outcome, result.ok, result.success)
           /\ IF result.ok
              THEN /\ step_status' = MapInsert(step_status, step_id, "Done")
                   /\ step_results' = MapInsert(step_results, step_id,
                                                [success |-> result.success])
                   /\ plan' = [plan EXCEPT ![k].status = "Done", ![k].is_succeeded = TRUE]
                   /\ loop_pc' = "select"
              ELSE /\ step_status' = MapInsert(step_status, step_id, "Failed")
                   /\ plan' = [plan EXCEPT ![k].status = "Failed", ![k].error_reason = TRUE]
                   /\ loop_pc' = "returned"
                   /\ UNCHANGED step_results
    /\ current_step' = 0
    /\ UNCHANGED <<executed, runs>>
    /\ UNCHANGED nonPlanVars

PlanNext ==
    \/ \E in \in PlanInputs : AgentNew(in)
    \/ \E in \in ResumedPlanInputs : AgentNewResumed(in)
    \/ RunLoopStart
    \/ RunLoopSelect
    \/ \E outcome \in Outcomes : RunLoopExecute(outcome)

(***************************************************************************)
(* The reader-writer locks of the three components                         *)
(***************************************************************************)
\* Each operation is the sequence of lock acquisitions and releases its body
\* makes; a guard bound with let lives to the end of the function, a guard
\* that is a temporary lives to the end of its statement (of the if-let body
\* for an if-let scrutinee, of the function for the tail expression).
Threads == {"t1", "t2", "t3"}

Acquire(lock, mode) == [do |-> "acquire", lock |-> lock, mode |-> mode]
Release(lock) == [do |-> "release", lock |-> lock, mode |-> ""]
\* a guard taken and dropped within one statement that awaits nothing else:
\* the thread waits for the lock like any other and drops it in the poll that
\* runs the statement
Brief(lock, mode) == <<[do |-> "use", lock |-> lock, mode |-> mode]>>

\* AgentRegistry::unregister with the two index guards taken type-first
RegistryPrograms_TypeFirst ==
    [register |->
        Brief("agents", "w")
        \o <<Acquire("capability_index", "w"), Acquire("type_index", "w"),
             Release("type_index"), Release("capability_index")>>,
     unregister |->
        Brief("agents", "w")
        \o <<Acquire("type_index", "w"), Acquire("capability_index", "w"),
             Release("capability_index"), Release("type_index")>>,
     heartbeat |-> Brief("agents", "w"),
     find_by_type |->
        <<Acquire("type_index", "r"), Acquire("agents", "r"),
          Release("agents"), Release("type_index")>>,
     find_by_capability |->
        <<Acquire("capability_index", "r"), Acquire("agents", "r"),
          Release("agents"), Release("capability_index")>>,
     cleanup_dead_agents |->
        Brief("agents", "r") \o Brief("agents", "w")
        \o <<Acquire("type_index", "w"), Acquire("capability_index", "w"),
             Release("capability_index"), Release("type_index")>>]

\* TaskQueue: enqueue (with dependencies), dequeue, mark_in_progress,
\* mark_completed, mark_failed, get_task_status (not found anywhere),
\* get_stats, cleanup_expired
QueuePrograms ==
    [enqueue |-> Brief("dependencies", "w") \o Brief("pending", "w"),
     dequeue |->
        <<Acquire("pending", "w"), Acquire("in_progress", "r"), Acquire("completed", "r"),
          Release("completed"), Release("in_progress"), Release("pending")>>,
     mark_in_progress |-> Brief("in_progress", "w"),
     mark_completed |->
        <<Acquire("in_progress", "w")>>
        \o Brief("completed", "w") \o Brief("dependencies", "w")
        \o <<Release("in_progress")>>,
     mark_failed |->
        <<Acquire("in_progress", "w")>> \o Brief("failed", "w")
        \o <<Release("in_progress")>>,
     get_task_status |->
        Brief("in_progress", "r") \o Brief("completed", "r")
        \o Brief("failed", "r") \o Brief("pending", "r"),
     get_stats |->
        Brief("pending", "r")
        \o <<Acquire("in_progress", "r"), Acquire("completed", "r"), Acquire("failed", "r"),
             Release("failed"), Release("completed"), Release("in_progress")>>,
     cleanup_expired |-> Brief("pending", "w")]

\* AgentRegistry: register, unregister, heartbeat, find_by_type,
\* find_by_capability, cleanup_dead_agents (with one dead agent)
RegistryPrograms ==
    [register |->
        Brief("agents", "w")
        \o <<Acquire("capability_index", "w"), Acquire("type_index", "w"),
             Release("type_index"), Release("capability_index")>>,
     unregister |->
        Brief("agents", "w")
        \o <<Acquire("capability_index", "w"), Acquire("type_index", "w"),
             Release("type_index"), Release("capability_index")>>,
     heartbeat |-> Brief("agents", "w"),
     find_by_type |->
        <<Acquire("type_index", "r"), Acquire("agents", "r"),
          Release("agents"), Release("type_index")>>,
     find_by_capability |->
        <<Acquire("capability_index", "r"), Acquire("agents", "r"),
          Release("agents"), Release("capability_index")>>,
     cleanup_dead_agents |->
        Brief("agents", "r") \o Brief("agents", "w")
        \o <<Acquire("capability_index", "w"), Acquire("type_index", "w"),
             Release("type_index"), Release("capability_index")>>]

\* MemoryPool: get_global, get_agent, set_global, set_agent, delete_global,
\* delete_agent, cleanup_expired, get_stats
MemoryPrograms ==
    [get_global |-> Brief("global_memory", "r"),
     get_agent |-> Brief("agent_memory", "r"),
     set_global |-> Brief("global_memory", "w"),
     set_agent |-> Brief("agent_memory", "w"),
     delete_global |-> Brief("global_memory", "w"),
     delete_agent |-> Brief("agent_memory", "w"),
     cleanup_expired |->
        <<Acquire("global_memory", "w"), Acquire("agent_memory", "w"),
          Release("agent_memory"), Release("global_memory")>>,
     get_stats |->
        Brief("global_memory", "r") \o Brief("agent_memory", "r")
        \o Brief("agent_memory", "r")]

\* the operations a thread may call: <<component, operation>>
Operations ==
    ({"queue"} \X DOMAIN QueuePrograms)
    \cup ({"registry"} \X DOMAIN RegistryPrograms)
    \cup ({"memory"} \X DOMAIN MemoryPrograms)

ProgramOf(op) ==
    IF op[1] = "queue" THEN QueuePrograms[op[2]]
    ELSE IF op[1] = "registry" THEN RegistryPrograms[op[2]]
    ELSE MemoryPrograms[op[2]]

LockNames ==
    {"pending", "in_progress", "completed", "failed", "dependencies",
     "agents", "capability_index", "type_index", "global_memory", "agent_memory"}

\* tokio::sync::RwLock: one writer or any number of readers, and the waiters
\* in the order they arrived. A holder that drops its guard hands the lock to
\* the waiters at the head of the queue, which hold it from then on, before
\* they are polled. A thread is the rest of the operation it is in (<<>> when
\* it is in none) and whether it has not been polled since it began to wait.
LockInit ==
    /\ locks = [l \in LockNames |-> [writer |-> "", readers |-> {}, queue |-> <<>>]]
    /\ threads = [t \in Threads |-> [rest |-> <<>>, waiting |-> FALSE]]

\* the instruction thread t is at
Instruction(t) == Head(threads[t].rest)

\* the component a lock belongs to
ComponentOf(lock) ==
    IF lock \in {"pending", "in_progress", "completed", "failed", "dependencies"}
    THEN "queue"
    ELSE IF lock \in {"agents", "capability_index", "type_index"} THEN "registry"
    ELSE "memory"

\* thread t calls an operation. The components share no lock, so callers of
\* different components never wait for each other: the threads that are
\* inside an operation at the same time are taken inside one component.
ThreadCall(t, op) ==
    /\ threads[t].rest = <<>>
    /\ \A u \in Threads :
          threads[u].rest /= <<>> => ComponentOf(Instruction(u).lock) = op[1]
    /\ threads' = [threads EXCEPT ![t] = [rest |-> ProgramOf(op), waiting |-> FALSE]]
    /\ UNCHANGED locks
    /\ UNCHANGED nonLockVars

\* the lock can be given in this mode: a reader when no writer holds it, a
\* writer when nobody holds it
Available(lock, mode) ==
    /\ locks[lock].writer = ""
    /\ mode = "w" => locks[lock].readers = {}

\* the lock after thread t was given it at instruction ins: t is one more
\* holder unless the guard is dropped in the same statement
Granted(ins, t) ==
    IF ins.do = "use" THEN locks[ins.lock]
    ELSE [locks[ins.lock] EXCEPT !.writer = IF ins.mode = "w" THEN t ELSE "",
                                 !.readers = IF ins.mode = "r" THEN @ \cup {t} ELSE {}]

\* lock.read().await / lock.write().await is polled for the first time: the
\* guard is returned at once when the lock is available and nobody waits for
\* it, otherwise the thread joins the waiters
LockRequest(t) ==
    /\ threads[t].rest /= <<>>
    /\ ~threads[t].waiting
    /\ Instruction(t).do \in {"acquire", "use"}
    /\ LET l == Instruction(t).lock
           mode == Instruction(t).mode
       IN  IF Available(l, mode) /\ locks[l].queue = <<>>
           THEN /\ locks' = [locks EXCEPT ![l] = Granted(Instruction(t), t)]
                /\ threads' = [threads EXCEPT ![t].rest = Tail(@)]
           ELSE /\ locks' = [locks EXCEPT ![l].queue =
                                Append(@, [thread |-> t, mode |-> mode])]
                /\ threads' = [threads EXCEPT ![t].waiting = TRUE]
    /\ UNCHANGED nonLockVars

\* the permits a dropped guard gave back go to the waiters, oldest first: to
\* every reader up to the first writer, to that writer once no reader is left
RECURSIVE HandOver(_)
HandOver(lk) ==
    IF lk.queue = <<>> \/ lk.writer /= "" THEN lk
    ELSE IF Head(lk.queue).mode = "r"
    THEN HandOver([lk EXCEPT !.readers = @ \cup {Head(lk.queue).thread},
                             !.queue = Tail(@)])
    ELSE IF lk.readers = {}
    THEN [lk EXCEPT !.writer = Head(lk.queue).thread, !.queue = Tail(@)]
    ELSE lk

\* the lock once thread t has dropped its guard
Dropped(lk, t) ==
    HandOver([lk EXCEPT !.writer = IF @ = t THEN "" ELSE @, !.readers = @ \ {t}])

\* thread t was handed the lock it waits for
HandedTo(t) ==
    /\ threads[t].rest /= <<>>
    /\ threads[t].waiting
    /\ \A i \in 1..Len(locks[Instruction(t).lock].queue) :
          locks[Instruction(t).lock].queue[i].thread /= t

\* a waiter that was handed the lock is polled: it goes on with the guard,
\* and a one-statement use runs and drops it
LockGrant(t) ==
    /\ HandedTo(t)
    /\ locks' = IF Instruction(t).do = "use"
                THEN [locks EXCEPT ![Instruction(t).lock] = Dropped(@, t)]
                ELSE locks
    /\ threads' = [threads EXCEPT ![t] = [rest |-> Tail(@.rest), waiting |-> FALSE]]
    /\ UNCHANGED nonLockVars

\* a guard is dropped and the lock handed on; after the last one the operation
\* returns
LockRelease(t) ==
    /\ threads[t].rest /= <<>>
    /\ Instruction(t).do = "release"
    /\ locks' = [locks EXCEPT ![Instruction(t).lock] = Dropped(@, t)]
    /\ threads' = [threads EXCEPT ![t].rest = Tail(@)]
    /\ UNCHANGED nonLockVars

\* what the runtime does for a thread inside an operation
ThreadStep(t) == LockRequest(t) \/ LockGrant(t) \/ LockRelease(t)

LockNext ==
    \/ \E t \in Threads, op \in Operations : ThreadCall(t, op)
    \/ \E t \in Threads : LockRequest(t)
    \/ \E t \in Threads : LockGrant(t)
    \/ \E t \in Threads : LockRelease(t)

(***************************************************************************)
(* Specifications                                                          *)
(***************************************************************************)
Init ==
    /\ now = 0
    /\ QueueInit
    /\ RegistryInit
    /\ BusInit
    /\ ManagerInit
    /\ MemoryInit
    /\ PlanInit
    /\ StepInit
    /\ FilterInit
    /\ ListInit
    /\ ReaperInit
    /\ DequeueInit
    /\ LockInit
    /\ SendInit
    /\ PoolInit

\* the state after construction with the bus on its smallest configuration
SmallInit ==
    /\ Init
    /\ config.history_size = 1

QueueSpec == Init /\ [][QueueNext]_vars

RegistrySpec == Init /\ [][RegistryNext]_vars

BusSpec == Init /\ [][BusNext]_vars

\* the bus with one send after the other
BusSerialSpec == Init /\ [][BusSerialNext]_vars

\* the manager with the bus on its smallest configuration
ManagerSpec == SmallInit /\ [][ManagerNext]_vars

\* the drivers of the spawned agents
DriverSpec == SmallInit /\ [][DriverNext]_vars

\* the memory pool on its own; the bus keeps its smallest configuration
MemorySpec == SmallInit /\ [][MemoryNext]_vars

\* register and unregister one statement at a time, readers in between
RegistryStepSpec == SmallInit /\ [][RegistryStepNext]_vars

\* cleanup_dead_agents and the other registry calls, one call at a time
ReaperSpec == SmallInit /\ [][ReaperNext]_vars

\* the bus with receivers that call recv_filtered, on its smallest configuration
FilterSpec == SmallInit /\ [][FilterNext]_vars

\* the task queue with several callers of dequeue
DequeueSpec == SmallInit /\ [][DequeueNext]_vars

\* cleanup_dead_agents beside heartbeats, registrations and removals

\* the memory pool with callers that list its keys
ListingSpec == SmallInit /\ [][ListingNext]_vars

\* the locks of the three components under concurrent callers
LockSpec == SmallInit /\ [][LockNext]_vars

\* the runtime keeps polling every thread that is inside an operation
LockLiveSpec == LockSpec /\ \A t \in Threads : WF_vars(ThreadStep(t))

\* the plan loop on its own
PlanSpec == SmallInit /\ [][PlanNext]_vars

\* the plan loop when the loop is scheduled and every execution returns
PlanLiveSpec ==
    /\ PlanSpec
    /\ WF_vars(RunLoopSelect)
    /\ WF_vars(\E outcome \in Outcomes : RunLoopExecute(outcome))

(***************************************************************************)
(* TaskQueue properties                                                    *)
(***************************************************************************)
CompletedIds == {completed[i].id : i \in 1..Len(completed)}

\* Priority as the enum orders it (agent/types.rs: Low = 0 .. Critical = 3)
PriorityRank == [p \in Priorities |->
    CASE p = "Low" -> 0 [] p = "Normal" -> 1 [] p = "High" -> 2 [] p = "Critical" -> 3]

OccurrencesIn(tasks, id) == Cardinality({i \in 1..Len(tasks) : tasks[i].id = id})

RECURSIVE PendingOccurrences(_, _, _)
PendingOccurrences(pend, k, id) ==
    IF k > Len(PriorityOrder) THEN 0
    ELSE OccurrencesIn(pend[PriorityOrder[k]], id) + PendingOccurrences(pend, k + 1, id)

\* in how many places of the four collections the task id is held
Holders(id) ==
    PendingOccurrences(pending, 1, id)
    + (IF id \in DOMAIN in_progress THEN 1 ELSE 0)
    + OccurrencesIn(completed, id)
    + OccurrencesIn(failed, id)

\* C1: a task that has been enqueued is held in exactly one of the four
\* collections after every operation, cleanup_expired being the only
\* operation that may take it out of all of them.
C1_ExactlyOneCollection ==
    [][\A id \in TaskIds :
          (\/ (qLast'.op = "enqueue" /\ qLast'.id = id)
           \/ (Holders(id) = 1 /\ qLast'.op /= "cleanup_expired"))
          => Holders(id)' = 1]_vars

\* eligibility as the contract states it, on the collections
Eligible(task) ==
    \A k \in 1..Len(task.dependencies) :
        /\ task.dependencies[k] \in CompletedIds
        /\ task.dependencies[k] \notin DOMAIN in_progress

\* C2: a task returned by dequeue has every dependency in the completed
\* archive (and none in progress) at the moment it is returned.
C2_DequeuedDepsCompleted ==
    (qLast.op = "dequeue" /\ qLast.ok)
        => \A k \in 1..Len(qLast.task.dependencies) :
              /\ qLast.task.dependencies[k] \in CompletedIds
              /\ qLast.task.dependencies[k] \notin DOMAIN in_progress

C2_Witness ==
    /\ qLast.op = "dequeue"
    /\ qLast.ok
    /\ Len(qLast.task.dependencies) > 0

EligibleBands == {p \in Priorities : \E i \in 1..Len(pending[p]) : Eligible(pending[p][i])}

\* C3: dequeue returns the earliest enqueued eligible task of the highest
\* band that has an eligible task, skipping ineligible tasks ahead of it, and
\* returns none only when no pending task is eligible.
C3_StrictPriorityFifo ==
    [][qLast'.op = "dequeue" =>
          IF EligibleBands = {}
          THEN ~qLast'.ok /\ pending' = pending
          ELSE LET p == CHOOSE b \in EligibleBands :
                            \A c \in EligibleBands : PriorityRank[c] <= PriorityRank[b]
                   i == CHOOSE j \in 1..Len(pending[p]) :
                            /\ Eligible(pending[p][j])
                            /\ \A h \in 1..(j - 1) : ~Eligible(pending[p][h])
               IN  /\ qLast'.ok
                   /\ qLast'.task = pending[p][i]
                   /\ pending' = [pending EXCEPT ![p] = RemoveAt(@, i)]]_vars

\* a dequeue returned a task from behind an ineligible task of the same band
C3_Witness ==
    /\ qLast.op = "dequeue"
    /\ qLast.ok
    /\ \E j \in 1..Len(pending[qLast.task.priority]) :
          /\ pending[qLast.task.priority][j].id < qLast.task.id
          /\ ~Eligible(pending[qLast.task.priority][j])

ScenarioA == NewTask(1, "Critical", <<2>>, NoDeadline)
ScenarioB == NewTask(2, "Low", <<>>, NoDeadline)
OnlyPending(crit, low) ==
    /\ pending = [p \in Priorities |->
                    CASE p = "Critical" -> crit [] p = "Low" -> low [] OTHER -> <<>>]
    /\ in_progress = <<>>
    /\ failed = <<>>

\* C4: with A (Critical, dependencies = [B]) and B (Low) enqueued on an empty
\* queue, dequeue yields B, mark_completed(B) succeeds, dequeue yields A,
\* dequeue yields none.
C4_DependencyScenario ==
    /\ [][(OnlyPending(<<ScenarioA>>, <<ScenarioB>>) /\ completed = <<>>
            /\ qLast'.op = "dequeue")
           => (qLast'.ok /\ qLast'.task = ScenarioB)]_vars
    /\ [][(OnlyPending(<<ScenarioA>>, <<>>) /\ completed = <<>>
            /\ qLast = QLast("dequeue", 2, TRUE, ScenarioB)
            /\ qLast'.op = "mark_completed" /\ qLast'.id = 2)
           => qLast'.ok]_vars
    /\ [][(OnlyPending(<<ScenarioA>>, <<>>) /\ CompletedIds = {2}
            /\ qLast.op = "mark_completed" /\ qLast.id = 2 /\ qLast.ok
            /\ qLast'.op = "dequeue")
           => (qLast'.ok /\ qLast'.task = ScenarioA)]_vars
    /\ [][(OnlyPending(<<>>, <<>>) /\ CompletedIds = {2}
            /\ qLast = QLast("dequeue", 1, TRUE, ScenarioA)
            /\ qLast'.op = "dequeue")
           => ~qLast'.ok]_vars

(***************************************************************************)
(* AgentRegistry properties                                                *)
(***************************************************************************)
IndexedUnder(index, key, id) == key \in DOMAIN index /\ id \in Range(index[key])

\* C5: after every registry operation, each agent of the primary map is
\* listed in the capability index under each capability it declares and in
\* the type index under its type, and an id that is not in the primary map
\* is listed under no key of either index.
C5_IndicesConsistent ==
    RegistryQuiet
       => /\ \A id \in DOMAIN agents :
                /\ \A k \in 1..Len(agents[id].capabilities) :
                      IndexedUnder(capability_index, agents[id].capabilities[k], id)
                /\ IndexedUnder(type_index, agents[id].agent_type, id)
          /\ \A id \in AgentIds \ DOMAIN agents :
                /\ \A c \in DOMAIN capability_index : id \notin Range(capability_index[c])
                /\ \A ty \in DOMAIN type_index : id \notin Range(type_index[ty])

(***************************************************************************)
(* MessageBus properties                                                   *)
(***************************************************************************)
Holds(h, message) ==
    \E i \in 1..Len(receivers[h].broadcast_rx) : receivers[h].broadcast_rx[i] = message

\* C6: a broadcast that was sent is held for every agent registered at send
\* time other than its sender (register_agent has returned its receiver, which
\* still exists), and recv and try_recv never return a broadcast to the
\* receiver of its own sender.
C6_BroadcastExcludesSender ==
    /\ (bLast.op = "send" /\ bLast.ok /\ bLast.msg.receiver_id = NoReceiver)
          => \A a \in (DOMAIN p2p_channels) \ {bLast.msg.sender_id} :
                Open(receivers[p2p_channels[a]]) => Holds(p2p_channels[a], bLast.msg)
    /\ (bLast.op \in {"recv", "try_recv"} /\ bLast.ok /\ bLast.msg.receiver_id = NoReceiver)
          => bLast.msg.sender_id /= receivers[bLast.rcv].agent_id

\* the receiver of the sender has just consumed and filtered out its own
\* broadcast, which another registered agent still holds
C6_Witness ==
    /\ bLast.op \in {"recv", "try_recv"}
    /\ bLast.err = "own_broadcast"
    /\ bLast.msg.sender_id = receivers[bLast.rcv].agent_id
    /\ \E a \in (DOMAIN p2p_channels) \ {bLast.msg.sender_id} :
          receivers[p2p_channels[a]].alive /\ Holds(p2p_channels[a], bLast.msg)

\* the expiry of the message, if it has one, is not before the clock value t
NotExpired(message, t) == message.expires_at = NoExpiry \/ message.expires_at >= t

\* the point-to-point messages whose send is about to look up the receiver
AtLookup ==
    {s.msg : s \in {x \in sending : x.pc \in {"deliver", "granted"} /\ ~is_broadcast(x.msg)}}

\* the broadcasts whose send is about to call broadcast_tx.send
AtBroadcast == {s.msg : s \in {x \in sending : x.pc = "deliver" /\ is_broadcast(x.msg)}}

\* this step is the lookup of the receiver, under the read lock of
\* p2p_channels, by the send of a message that was about to make it
LookedUp ==
    /\ bLast'.msg \in AtLookup
    /\ bLast'.op \in {"lookup", "send"}
    /\ bLast'.err /= "waiting_lock"

\* the send now has its failure to count and to return
FailurePending(message, err) ==
    \E s \in sending' : s.msg = message /\ s.pc = "failed" /\ s.err = err

\* C7: a send to a registered receiver whose inbox already holds
\* p2p_capacity messages returns at once with a delivery error and counts a
\* failed delivery; it never waits.
C7_FullInboxFailsFast ==
    [][(/\ LookedUp
        /\ bLast'.msg.receiver_id \in DOMAIN p2p_channels
        /\ receivers[p2p_channels[bLast'.msg.receiver_id]].alive
        /\ Len(receivers[p2p_channels[bLast'.msg.receiver_id]].p2p_rx) = config.p2p_capacity)
       => (/\ ~bLast'.ok
           /\ bLast'.err /= "waiting"
           /\ blocked' = blocked
           /\ \E s \in sending' : s.msg = bLast'.msg /\ s.pc = "failed")]_vars

\* C8: register_agent of an id that is already registered fails and leaves
\* the existing inbox and its receiver as they are.
C8_DuplicateRegisterFails ==
    [][(bLast'.op = "insert_channel" /\ bLast'.agent \in DOMAIN p2p_channels)
       => (/\ ~bLast'.ok
           /\ p2p_channels' = p2p_channels
           /\ receivers' = receivers)]_vars

\* C9: send of a message whose expires_at is past returns an error, counts
\* one expired message and changes nothing else.
C9_ExpiredSendRejected ==
    [][(sends' = sends + 1 /\ ~NotExpired(bLast'.msg, bLast'.at))
       => (/\ bLast'.op = "send"
           /\ ~bLast'.ok
           /\ bLast'.err = "expired"
           /\ stats' = [stats EXCEPT !.expired_messages = @ + 1]
           /\ message_history' = message_history
           /\ receivers' = receivers
           /\ p2p_channels' = p2p_channels
           /\ blocked' = blocked
           /\ sending' = sending
           /\ chan_queue' = chan_queue)]_vars

\* an expired message was rejected while a registered receiver could have got it
C9_Witness ==
    /\ bLast.op = "send"
    /\ bLast.err = "expired"
    /\ stats.expired_messages > 0
    /\ \E a \in DOMAIN p2p_channels : receivers[p2p_channels[a]].alive

\* C10: a send of a non-expired point-to-point message that finds its
\* receiver not registered reaches no inbox and goes on to its failure, and
\* there it counts exactly one failed delivery and returns the error.
C10_UnknownReceiverFails ==
    /\ [][(LookedUp /\ bLast'.msg.receiver_id \notin DOMAIN p2p_channels)
          => (/\ ~bLast'.ok
              /\ FailurePending(bLast'.msg, "not_found")
              /\ receivers' = receivers
              /\ blocked' = blocked)]_vars
    /\ [][\A s \in sending \ sending' :
             (s.pc = "failed" /\ s.err = "not_found")
                => (/\ bLast' = SendLast(0, FALSE, "not_found", s.msg, s.at)
                    /\ stats' = [stats EXCEPT !.failed_deliveries = @ + 1]
                    /\ receivers' = receivers
                    /\ blocked' = blocked)]_vars

\* the send failed on a receiver that had been registered and unregistered
C10_Witness ==
    /\ bLast.op = "send"
    /\ bLast.err = "not_found"
    /\ stats.failed_deliveries > 0
    /\ bLast.msg.receiver_id \notin DOMAIN p2p_channels
    /\ \E h \in 1..Len(receivers) :
          receivers[h].agent_id = bLast.msg.receiver_id /\ receivers[h].alive

\* C11: a broadcast that is not expired and reaches the broadcast channel
\* while no agent is registered on the bus goes on to the no-receivers
\* delivery error, which counts one failed delivery.
C11_BroadcastNoAgentsFails ==
    [][(/\ bLast'.msg \in AtBroadcast
        /\ bLast'.op \in {"send", "broadcast_send"}
        /\ DOMAIN p2p_channels = {})
       => (/\ ~bLast'.ok
           /\ FailurePending(bLast'.msg, "no_receivers"))]_vars

\* receiver h has a point-to-point message and a broadcast of another agent
\* ready, and no recv call of it is half way
BothReady(h) ==
    /\ receivers[h].alive
    /\ receivers[h].branches = "both"
    /\ Len(receivers[h].p2p_rx) > 0
    /\ ~receivers[h].lagged
    /\ Len(receivers[h].broadcast_rx) > 0
    /\ Head(receivers[h].broadcast_rx).sender_id /= receivers[h].agent_id

\* C12: recv on a receiver that has both a point-to-point message and a
\* broadcast of another agent ready returns the point-to-point message.
C12_RecvPrefersP2p ==
    [][\A h \in 1..Len(receivers) :
          (bLast'.op = "recv" /\ bLast'.rcv = h /\ BothReady(h))
             => (bLast'.ok /\ bLast'.msg = Head(receivers[h].p2p_rx))]_vars

\* the messages still waiting for receiver h in a send that has not returned
WaitingFor(blk, h) == {blk[i].msg : i \in {j \in 1..Len(blk) : blk[j].rcv = h}}

\* C13: when recv or try_recv hands a point-to-point message to a receiver,
\* no older message of the same sender is left behind in its inbox or waiting
\* for it; when it hands over a broadcast, no older broadcast is left behind
\* in its subscription.
C13_FifoDelivery ==
    [][\A h \in 1..Len(receivers) :
          (bLast'.op \in {"recv", "try_recv"} /\ bLast'.rcv = h /\ bLast'.ok)
             => IF bLast'.msg.receiver_id /= NoReceiver
                THEN \A m \in Range(receivers'[h].p2p_rx) \cup WaitingFor(blocked', h) :
                        m.sender_id = bLast'.msg.sender_id => m.id > bLast'.msg.id
                ELSE \A m \in Range(receivers'[h].broadcast_rx) : m.id > bLast'.msg.id]_vars

\* a receiver was handed a message while a later one of the same kind, from
\* the same sender, was already there for it
C13_Witness ==
    /\ bLast.op \in {"recv", "try_recv"}
    /\ bLast.ok
    /\ IF bLast.msg.receiver_id /= NoReceiver
       THEN \E m \in Range(receivers[bLast.rcv].p2p_rx) :
               m.sender_id = bLast.msg.sender_id /\ m.id > bLast.msg.id
       ELSE \E m \in Range(receivers[bLast.rcv].broadcast_rx) : m.id > bLast.msg.id

\* the filters given to get_history
HistoryFilters ==
    [sender_id : {<<>>, <<"a1">>, <<"a2">>},
     message_types : {<<>>, <<(<<"StatusUpdate", "Heartbeat">>)>>, <<(<<"TaskAssignment">>)>>},
     min_priority : {<<>>, <<PriorityNormal>>, <<PriorityHigh>>}]

\* what the filter asks of a message: sender equal, type in the list,
\* priority at least min_priority
Wanted(filter, m) ==
    /\ filter.sender_id = <<>> \/ m.sender_id = filter.sender_id[1]
    /\ filter.message_types = <<>>
          \/ \E k \in 1..Len(filter.message_types[1]) :
                filter.message_types[1][k] = m.message_type
    /\ filter.min_priority = <<>> \/ m.priority >= filter.min_priority[1]

\* the last n elements of a sequence
LastN(s, n) == SubSeq(s, Len(s) - n + 1, Len(s))

Min(a, b) == IF a <= b THEN a ELSE b

\* C14: with one send after the other, the history holds at most history_size
\* messages and, once a send has saved its message, is the most recent ones
\* that passed the expiry check of send, in send order, delivered or not;
\* get_history returns the entries of the history the filter asks for, in the
\* same order, and the whole history when no filter is given.
C14_HistoryRing ==
    /\ Len(message_history) <= config.history_size
    /\ (\A s \in sending : s.pc /= "history")
          => message_history = LastN(sent, Min(Len(sent), config.history_size))
    /\ get_history(message_history, <<>>) = message_history
    /\ \A f \in HistoryFilters :
          get_history(message_history, <<f>>)
             = SelectSeq(message_history, LAMBDA m : Wanted(f, m))

\* the history has evicted a message, its newest entry is a message whose
\* delivery failed, and some filter selects a part of it
C14_Witness ==
    /\ Len(sent) > config.history_size
    /\ bLast.op = "send"
    /\ ~bLast.ok
    /\ bLast.err \in {"not_found", "no_receivers"}
    /\ message_history[Len(message_history)] = bLast.msg
    /\ \E f \in HistoryFilters :
          /\ get_history(message_history, <<f>>) /= <<>>
          /\ Len(get_history(message_history, <<f>>)) < Len(message_history)

(***************************************************************************)
(* AgentManager properties                                                 *)
(***************************************************************************)
\* C15: the manager never holds more than max_agents runtime rows, and a
\* spawn_agent call that starts when the count has reached max_agents returns
\* ResourceExhausted with the worker not initialized and neither the bus nor
\* the registry touched.
C15_MaxAgentsEnforced ==
    /\ [](Cardinality(DOMAIN runtimes) <= MaxAgents)
    /\ [][(mLast'.op = "spawn_check" /\ mLast' /= mLast)
          => (Cardinality(DOMAIN runtimes) >= MaxAgents
                => (/\ ~mLast'.ok
                    /\ mLast'.err = "ResourceExhausted"
                    /\ workers' = workers
                    /\ p2p_channels' = p2p_channels
                    /\ agents' = agents))]_vars

\* the id is listed under some key of the index
InIndex(index, id) == \E key \in DOMAIN index : id \in Range(index[key])

\* C16: terminate_agent of an id without a runtime row returns AgentNotFound
\* and changes nothing; any other terminate_agent, once it has returned,
\* leaves the id without runtime row, without registry row or index entry,
\* and without inbox in the bus.
C16_TerminateRemovesEverywhere ==
    /\ [][(mLast'.op = "terminate_begin" /\ mLast' /= mLast
             /\ mLast'.id \notin DOMAIN runtimes)
          => (/\ ~mLast'.ok
              /\ mLast'.err = "AgentNotFound"
              /\ UNCHANGED <<runtimes, spawning, terminating, drivers, workers>>
              /\ UNCHANGED <<registryVars, busVars>>)]_vars
    /\ [](mLast.op = "terminate_agent"
            => (/\ mLast.id \notin DOMAIN runtimes
                /\ mLast.id \notin DOMAIN agents
                /\ ~InIndex(capability_index, mLast.id)
                /\ ~InIndex(type_index, mLast.id)
                /\ mLast.id \notin DOMAIN p2p_channels))

\* the driver of agent id takes message m from its inbox in this step
DriverReceives(id, m) ==
    /\ id \in DOMAIN drivers
    /\ drivers[id].loop = "running"
    /\ Len(receivers[drivers[id].rcv].p2p_rx) > 0
    /\ Head(receivers[drivers[id].rcv].p2p_rx) = m
    /\ bLast' = BLast("recv", id, drivers[id].rcv, TRUE, "", m)

\* C17: a message that is neither Control nor StatusUpdate and that the
\* driver of a spawned agent takes from its inbox is passed to the
\* process_message of that worker.
C17_DriverCallsProcessMessage ==
    [][\A id \in AgentIds, m \in Range(sent) :
          (/\ DriverReceives(id, m)
           /\ m.message_type \notin {"Control(Stop)", "Control(Shutdown)", "StatusUpdate"})
             => workers'[id].processed = Append(workers[id].processed, m)]_vars

\* C18: when the driver of a spawned agent takes a Control(Stop) or
\* Control(Shutdown) message from its inbox, its message loop exits.
C18_ControlStopExitsLoop ==
    [][\A id \in AgentIds, m \in Range(sent) :
          (/\ DriverReceives(id, m)
           /\ m.message_type \in {"Control(Stop)", "Control(Shutdown)"})
             => drivers'[id].loop = "exited"]_vars

\* C19: shutdown() of a worker is never called twice, and it has been called
\* once when the driver has exited and the run task has finished.
C19_ShutdownCalledOnce ==
    \A id \in DOMAIN drivers :
        /\ workers[id].shutdowns <= 1
        /\ (drivers[id].loop = "exited" /\ drivers[id].run_task /= "running")
              => workers[id].shutdowns = 1

(***************************************************************************)
(* AgentRegistry properties: the reaper                                    *)
(***************************************************************************)
\* the agents whose heartbeat is at least the timeout old
Stale == {id \in DOMAIN agents : now - agents[id].last_heartbeat >= HeartbeatTimeout}

\* C20: cleanup_dead_agents, run alone, returns exactly the agents whose
\* heartbeat is at least heartbeat_timeout_secs old, removes them from the
\* primary map and from both indices, leaves the other agents as they are,
\* and neither find_by_capability nor find_by_type returns one of them
\* afterwards.
C20_ReaperEvictsExactlyStale ==
    /\ [][(reaper.pc = "idle" /\ reaper'.pc = "unregistering")
          => reaper'.collected = Stale]_vars
    /\ [][reaper.pc = "unregistering"
          => \A id \in (DOMAIN agents) \ reaper.collected :
                id \in DOMAIN agents' /\ agents'[id] = agents[id]]_vars
    /\ [][(reaper.pc = "unregistering" /\ reaper'.pc = "idle")
          => (/\ rLast'.ids = reaper.collected
              /\ \A id \in reaper.collected :
                    /\ id \notin DOMAIN agents'
                    /\ ~InIndex(capability_index', id)
                    /\ ~InIndex(type_index', id)
                    /\ \A ty \in DOMAIN type_index' :
                          \A k \in 1..Len(find_by_type(type_index', agents', ty)) :
                             find_by_type(type_index', agents', ty)[k].id /= id
                    /\ \A c \in DOMAIN capability_index' :
                          \A k \in 1..Len(find_by_capability(capability_index', agents', c)) :
                             find_by_capability(capability_index', agents', c)[k].id /= id)]_vars

(***************************************************************************)
(* TaskQueue properties: failed dependencies, archives, size               *)
(***************************************************************************)
FailedIds == {failed[i].id : i \in 1..Len(failed)}

\* one of the dependencies of the task is in the failed archive
HasFailedDep(task) ==
    \E k \in 1..Len(task.dependencies) : task.dependencies[k] \in FailedIds

\* C26: a pending task one of whose dependencies is in the failed archive is
\* not returned by dequeue, and it keeps its place in its pending band in
\* every step except cleanup_expired.  (mark_in_progress takes any task
\* value, so the failed dependency can be in the completed archive as well.)
C26_FailedDependencyBlocks ==
    [][\A p \in Priorities : \A i \in 1..Len(pending[p]) :
          HasFailedDep(pending[p][i])
             => /\ ~(/\ qLast'.op = "dequeue"
                     /\ qLast'.ok
                     /\ qLast'.task.id = pending[p][i].id)
                /\ qLast'.op /= "cleanup_expired"
                      => \E j \in 1..Len(pending'[p]) : pending'[p][j] = pending[p][i]]_vars

\* C27: mark_completed and mark_failed of an id that is not in progress
\* return TaskNotFound and leave the bands, the in-progress map, both
\* archives and the dependency map as they are; of an id in progress they
\* take the task out of the in-progress map, put it with status Completed
\* (Failed(reason)) at the end of the completed (failed) archive, leaving the
\* other archive and the bands as they are, and mark_completed then removes
\* the dependency record of the id and returns Ok.
C27_MarkMovesToArchive ==
    /\ [][(qLast'.op \in {"mark_completed", "mark_failed"} /\ ~qLast'.ok)
          => /\ qLast'.id \notin DOMAIN in_progress
             /\ UNCHANGED <<pending, in_progress, completed, failed, dependencies>>]_vars
    /\ [][(/\ marking = <<>>
           /\ qLast'.op \in {"mark_completed", "mark_failed",
                              "mark_completed_remove", "mark_failed_remove"})
          => IF qLast'.id \notin DOMAIN in_progress
             THEN /\ qLast'.op \in {"mark_completed", "mark_failed"}
                  /\ ~qLast'.ok
                  /\ marking' = <<>>
                  /\ UNCHANGED <<pending, in_progress, completed, failed, dependencies>>
             ELSE /\ qLast'.op \in {"mark_completed_remove", "mark_failed_remove"}
                  /\ qLast'.ok]_vars
    /\ [][(qLast'.op \in {"mark_completed_remove", "mark_failed_remove"})
          => LET id == qLast'.id
             IN  /\ id \in DOMAIN in_progress
                 /\ DOMAIN in_progress' = (DOMAIN in_progress) \ {id}
                 /\ \A x \in DOMAIN in_progress' : in_progress'[x] = in_progress[x]
                 /\ UNCHANGED <<pending, completed, failed, dependencies>>
                 /\ marking' /= <<>>
                 /\ IF qLast'.op = "mark_completed_remove"
                    THEN marking'[1].task = [in_progress[id] EXCEPT !.status = StCompleted]
                    ELSE \E r \in Reasons :
                            marking'[1].task =
                               [in_progress[id] EXCEPT !.status = StFailed(r)]]_vars
    /\ [][(marking /= <<>> /\ marking' /= marking)
          => CASE marking[1].pc = "completed" ->
                    /\ completed' = Append(completed, marking[1].task)
                    /\ UNCHANGED <<in_progress, failed, dependencies>>
                    /\ marking' /= <<>>
               [] marking[1].pc = "dependencies" ->
                    /\ marking[1].task.id \notin DOMAIN dependencies'
                    /\ UNCHANGED <<in_progress, completed, failed>>
                    /\ qLast' = QLast("mark_completed", marking[1].task.id, TRUE,
                                      marking[1].task)
               [] marking[1].pc = "failed" ->
                    /\ failed' = Append(failed, marking[1].task)
                    /\ UNCHANGED <<in_progress, completed, dependencies>>
                    /\ qLast' = QLast("mark_failed", marking[1].task.id, TRUE,
                                      marking[1].task)]_vars
    /\ [][marking /= <<>> => in_progress' = in_progress]_vars

\* both archives received a task, the completed one while another caller's
\* enqueue ran between the sections of mark_completed, and a later
\* mark_completed found its id missing
C27_Witness ==
    /\ qLast.op = "mark_completed"
    /\ ~qLast.ok
    /\ Len(failed) > 0
    /\ Len(completed) > 0
    /\ \E i \in 1..Len(completed) : \E p \in Priorities : \E j \in 1..Len(pending[p]) :
          pending[p][j].id > completed[i].id

\* C28: size() returns the number of tasks held in the four pending bands.
C28_SizeCountsPending ==
    [][qLast'.op = "size" => qLast'.id = SumLen(pending', 1)]_vars

(***************************************************************************)
(* MemoryPool properties                                                   *)
(***************************************************************************)
\* the tier a set_agent or get_agent on agent a looks at
TierOf(tiers, a) == IF a \in DOMAIN tiers THEN tiers[a] ELSE <<>>

\* the tier with the entry stored under key, every other key as it was
Stored(tier, key, entry) ==
    [k \in (DOMAIN tier) \cup {key} |-> IF k = key THEN entry ELSE tier[k]]

\* C22: a set of a key that is not in the tier while the tier holds its
\* maximum number of entries returns ResourceExhausted and stores nothing; any
\* other set succeeds and stores the entry under its key; no tier ever holds
\* more entries than its maximum.
C22_CapacityEnforced ==
    /\ [](/\ Cardinality(DOMAIN global_memory) <= MaxGlobalEntries
          /\ \A a \in DOMAIN agent_memory :
                Cardinality(DOMAIN agent_memory[a]) <= MaxAgentEntries)
    /\ [][(pLast'.op = "set_global" /\ sets' /= sets)
          => LET key == pLast'.key
             IN  IF /\ key \notin DOMAIN global_memory
                    /\ Cardinality(DOMAIN global_memory) >= MaxGlobalEntries
                 THEN /\ ~pLast'.ok
                      /\ pLast'.err = "ResourceExhausted"
                      /\ global_memory' = global_memory
                 ELSE /\ pLast'.ok
                      /\ global_memory' = Stored(global_memory, key, pLast'.entry)]_vars
    /\ [][(pLast'.op = "set_agent" /\ sets' /= sets)
          => LET key == pLast'.key
                 a == pLast'.agent
                 tier == TierOf(agent_memory, a)
             IN  IF key \notin DOMAIN tier /\ Cardinality(DOMAIN tier) >= MaxAgentEntries
                 THEN /\ ~pLast'.ok
                      /\ pLast'.err = "ResourceExhausted"
                      /\ \A x \in DOMAIN agent_memory' :
                            agent_memory'[x] = TierOf(agent_memory, x)
                 ELSE /\ pLast'.ok
                      /\ agent_memory'[a] = Stored(tier, key, pLast'.entry)
                      /\ \A x \in (DOMAIN agent_memory') \ {a} :
                            x \in DOMAIN agent_memory /\ agent_memory'[x] = agent_memory[x]]_vars

C22_Witness ==
    /\ pLast.op = "set_global"
    /\ ~pLast.ok
    /\ pLast.key = "k2"
    /\ "k1" \in DOMAIN global_memory
    /\ global_memory["k1"].value \in MemoryValues

\* the age of the entry at instant t exceeds its ttl
AgeExceedsTtl(entry, t) ==
    entry.ttl /= <<>> /\ t - entry.created_at > entry.ttl[1] * TicksPerSecond

\* the entries of a tier that are not older than their ttl
Unexpired(tier, t) == [k \in {x \in DOMAIN tier : ~AgeExceedsTtl(tier[x], t)} |-> tier[k]]

RECURSIVE SumSizes(_, _)
SumSizes(tiers, ids) ==
    IF ids = {} THEN 0
    ELSE LET a == CHOOSE x \in ids : TRUE
         IN  Cardinality(DOMAIN tiers[a]) + SumSizes(tiers, ids \ {a})

\* what a get on the tier has to return for key at instant t
GetReturns(tier, key, t) ==
    IF key \in DOMAIN tier /\ ~AgeExceedsTtl(tier[key], t)
    THEN pLast'.ok /\ pLast'.entry = tier[key]
    ELSE ~pLast'.ok

\* C23: get_global and get_agent return the stored entry when its age does
\* not exceed its ttl (an entry without ttl always) and nothing otherwise;
\* cleanup_expired removes exactly the entries whose age exceeds their ttl,
\* in the global tier and in every per-agent tier, and returns their number.
C23_TtlExpiry ==
    /\ [][(pLast'.op = "get_global" /\ mclock' = mclock)
          => GetReturns(global_memory, pLast'.key, mclock)]_vars
    /\ [][(pLast'.op = "get_agent" /\ mclock' = mclock)
          => GetReturns(TierOf(agent_memory, pLast'.agent), pLast'.key, mclock)]_vars
    /\ [][(cleaning.pc = "idle" /\ cleaning'.pc = "agents")
          => /\ global_memory' = Unexpired(global_memory, mclock)
             /\ cleaning'.count =
                   Cardinality(DOMAIN global_memory) - Cardinality(DOMAIN global_memory')]_vars
    /\ [][(cleaning'.pc = "scanning" /\ cleaning' /= cleaning)
          => /\ agent_memory' = [agent_memory EXCEPT ![pLast'.agent] = Unexpired(@, mclock)]
             /\ cleaning'.count - cleaning.count =
                   SumSizes(agent_memory, DOMAIN agent_memory)
                      - SumSizes(agent_memory', DOMAIN agent_memory')]_vars
    /\ [][(cleaning.pc /= "idle" /\ cleaning'.pc = "idle")
          => (pLast'.op = "cleanup_expired" /\ pLast'.count = cleaning.count)]_vars

\* the whole seconds between the creation of the entry and instant t
SecondsSinceCreation(entry, t) == (t - entry.created_at) \div TicksPerSecond

\* what a get finds under a stored key at instant t, judged from created_at
\* and ttl alone
GetFromCreation(tier, key, t) ==
    key \in DOMAIN tier
       => (pLast'.ok <=> (tier[key].ttl = <<>>
                          \/ SecondsSinceCreation(tier[key], t) <= tier[key].ttl[1]))

\* the entries of a tier that cleanup_expired keeps, judged the same way
KeptFromCreation(tier, t) ==
    [k \in {x \in DOMAIN tier :
               tier[x].ttl = <<>> \/ SecondsSinceCreation(tier[x], t) <= tier[x].ttl[1]}
       |-> tier[k]]

\* C30: whether get returns a stored entry, and whether cleanup_expired
\* removes it, is decided by its created_at and its ttl whatever its
\* updated_at is; an entry whose value was changed by update and that was
\* stored again keeps its created_at, so the change does not postpone the
\* instant from which it counts as expired.
C30_ExpiryFromCreation ==
    /\ [][(pLast'.op = "get_global" /\ mclock' = mclock)
          => GetFromCreation(global_memory, pLast'.key, mclock)]_vars
    /\ [][(pLast'.op = "get_agent" /\ mclock' = mclock)
          => GetFromCreation(TierOf(agent_memory, pLast'.agent), pLast'.key, mclock)]_vars
    /\ [][(cleaning.pc = "idle" /\ cleaning'.pc = "agents")
          => global_memory' = KeptFromCreation(global_memory, mclock)]_vars
    /\ [][(cleaning'.pc = "scanning" /\ cleaning' /= cleaning)
          => agent_memory' = [agent_memory EXCEPT ![pLast'.agent] =
                                 KeptFromCreation(@, mclock)]]_vars
    /\ [][(updating /= <<>> /\ updating' /= <<>> /\ updating' /= updating)
          => /\ updating'[1].entry.value = updating[1].value
             /\ updating'[1].entry.created_at = updating[1].entry.created_at
             /\ updating'[1].entry.ttl = updating[1].entry.ttl]_vars
    /\ [][(updating /= <<>> /\ updating' = <<>> /\ pLast'.ok)
          => global_memory'[pLast'.key] = updating[1].entry]_vars

\* a get found nothing under a key whose entry had its value changed less
\* than its ttl ago, but was created longer ago than that
C30_Witness ==
    /\ pLast.op = "get_global"
    /\ ~pLast.ok
    /\ pLast.at = mclock
    /\ pLast.key \in DOMAIN global_memory
    /\ LET entry == global_memory[pLast.key]
       IN  /\ entry.ttl /= <<>>
           /\ entry.updated_at > entry.created_at
           /\ entry.value \in MemoryValues
           /\ (mclock - entry.updated_at) \div TicksPerSecond <= entry.ttl[1]

(***************************************************************************)
(* Agent properties: the plan loop                                         *)
(***************************************************************************)
\* an execute call returns in this step
ExecuteReturns == loop_pc = "execute" /\ loop_pc' /= "execute"

\* the execution failed: the executor returned an error, or the tool call of
\* a call_tool step failed and the result carries success = false
ExecutionFailed(last) == ~last.ok \/ ~last.success

\* C24: a step whose execution fails (an executor error, or a failed tool
\* call recorded with success = false) ends Failed, and the loop stops there
\* without executing a later step.
C24_FailureStopsLoop ==
    [][(ExecuteReturns /\ ExecutionFailed(aLast'))
          => /\ step_status'[plan[current_step].step_id] = "Failed"
             /\ loop_pc' = "returned"]_vars

\* the step ids of the plan
StepIds == {plan[i].step_id : i \in DOMAIN plan}

\* the recorded status of a step id, "absent" when there is none
Recorded(status, step_id) ==
    IF step_id \in DOMAIN status THEN status[step_id] ELSE "absent"

Selectable(status, i) == Recorded(status, plan[i].step_id) \in {"Pending", "absent"}

\* the legal moves of a recorded status
StatusMove(from, to) ==
    \/ from = to
    \/ from \in {"Pending", "absent"} /\ to = "Executing"
    \/ from = "Executing" /\ to \in {"Done", "Failed"}

\* C25: the loop executes in plan order: it selects the first step whose
\* recorded status is Pending or absent, a status only moves from Pending or
\* absent to Executing and from Executing to Done or Failed, and when every
\* step succeeded the loop ends with every step Done, its result stored and
\* no step selectable.
C25_PlanOrder ==
    /\ [][(loop_pc = "select" /\ loop_pc' = "execute")
            => /\ Selectable(step_status, current_step')
               /\ \A j \in 1..(current_step' - 1) : ~Selectable(step_status, j)
               /\ Recorded(step_status', plan[current_step'].step_id) = "Executing"]_vars
    /\ [][(loop_pc = "select" /\ loop_pc' = "returned")
            => \A j \in DOMAIN plan : ~Selectable(step_status, j)]_vars
    /\ [][loop_pc /= "none"
            => \A id \in StepIds :
                  StatusMove(Recorded(step_status, id), Recorded(step_status', id))]_vars
    /\ [](\A i, j \in DOMAIN executed : i < j => executed[i] < executed[j])
    /\ []((/\ loop_pc = "returned"
           /\ \A id \in StepIds : Recorded(step_status, id) /= "Failed")
            => \A i \in DOMAIN plan :
                  /\ Recorded(step_status, plan[i].step_id) = "Done"
                  /\ plan[i].step_id \in DOMAIN step_results
                  /\ ~Selectable(step_status, i))

\* a plan of three steps ran to its end, every step Done in plan order
C25_Witness ==
    /\ loop_pc = "returned"
    /\ Len(plan) = 3
    /\ executed = <<1, 2, 3>>
    /\ \A i \in DOMAIN plan :
          /\ step_status[plan[i].step_id] = "Done"
          /\ step_results[plan[i].step_id].success

(***************************************************************************)
(* AgentRegistry properties: readers during a register or unregister       *)
(***************************************************************************)
\* a reader returns in this step
ReaderStep(op) ==
    /\ rLast'.op = op
    /\ rLast' /= rLast
    /\ agents' = agents
    /\ writers' = writers

\* C21: while a register or an unregister of an agent is in progress, what a
\* reader is given agrees with the primary map: find_by_type and
\* find_by_capability return the agent exactly when the primary map holds it
\* with that type or capability, as get_agent and get_all_agents show it.
C21_AtomicForReaders ==
    /\ [][ReaderStep("find_by_type")
          => \A i \in DOMAIN writers :
                (writers[i].info.id \in rLast'.ids
                   <=> /\ writers[i].info.id \in DOMAIN agents
                       /\ agents[writers[i].info.id].agent_type = rLast'.id)]_vars
    /\ [][ReaderStep("find_by_capability")
          => \A i \in DOMAIN writers :
                (writers[i].info.id \in rLast'.ids
                   <=> /\ writers[i].info.id \in DOMAIN agents
                       /\ rLast'.id \in Range(agents[writers[i].info.id].capabilities))]_vars

(***************************************************************************)
(* MessageReceiver properties: recv_filtered                               *)
(***************************************************************************)
\* the messages waiting in the two channels of a receiver
Waiting(rcv) == Range(rcv.p2p_rx) \cup Range(rcv.broadcast_rx)

\* C29: recv_filtered returns a message recv gave it exactly when the
\* message matches the filter, so the first that matches; one that does not
\* match is consumed and lost: it is in no channel of the receiver any more
\* and no later recv, try_recv or recv_filtered on that receiver returns it.
C29_FilteredDrainsNonMatching ==
    /\ [][(bLast'.op = "recv_filtered" /\ bLast'.err \in {"", "no_match"})
          => LET h == bLast'.rcv
                 filter == filters'[h].filter
             IN  /\ bLast'.ok <=> Wanted(filter, bLast'.msg)
                 /\ bLast'.ok <=> ~filters'[h].pending
                 /\ bLast'.msg \in Waiting(receivers[h])
                 /\ ~bLast'.ok => (h \in DOMAIN discarded'
                                     /\ bLast'.msg.id \in discarded'[h])]_vars
    /\ [][(bLast'.op \in {"recv", "try_recv", "recv_filtered"} /\ bLast'.ok)
          => bLast'.msg.id \notin DiscardedOn(bLast'.rcv)]_vars
    /\ [](\A h \in 1..Len(receivers) : \A m \in Waiting(receivers[h]) :
             m.id \notin DiscardedOn(h))

\* recv_filtered returned a matching message after it dropped one that did
\* not match
C29_Witness ==
    /\ bLast.op = "recv_filtered"
    /\ bLast.ok
    /\ DiscardedOn(bLast.rcv) /= {}
    /\ ~FilterPending(bLast.rcv)

\* C40: the loop only starts the execution of a step whose own status field
\* in the plan is Pending.
C40_FinishedStepsNotRerun ==
    [][(loop_pc = "select" /\ loop_pc' = "execute")
          => plan[current_step'].status = "Pending"]_vars

\* every step id of the plan has a terminal recorded status
AllTerminal == \A id \in StepIds : Recorded(step_status, id) \in {"Done", "Failed"}

\* the loop stopped at the step it executed last, which is Failed
StoppedAtFailed ==
    /\ aLast.op = "execute"
    /\ ~aLast.ok
    /\ Recorded(step_status, plan[aLast.index].step_id) = "Failed"

\* C32: a run_loop whose executions return terminates; when it has returned
\* no step is Executing, and either every step is Done or Failed or the loop
\* stopped at a step that is Failed.
C32_LoopTerminates ==
    /\ (loop_pc \in {"select", "execute"}) ~> (loop_pc = "returned")
    /\ [](loop_pc = "returned"
            => /\ \A id \in StepIds : Recorded(step_status, id) /= "Executing"
               /\ AllTerminal \/ StoppedAtFailed)

\* a loop returned after it stopped at a failed step, with a later step never
\* started
C32_Witness ==
    /\ loop_pc = "returned"
    /\ StoppedAtFailed
    /\ ~AllTerminal
    /\ Len(executed) >= 2

(***************************************************************************)
(* AgentManager properties: the three id sets                              *)
(***************************************************************************)
\* no spawn_agent and no terminate_agent is in progress
ManagerQuiet == spawning = <<>> /\ terminating = <<>>

\* C35: whenever no manager operation is in progress, an id has a runtime
\* row in the manager exactly when it has a row in the registry and exactly
\* when it has an inbox in the bus.
C35_IdSetsAgree ==
    ManagerQuiet
       => /\ DOMAIN runtimes = DOMAIN agents
          /\ DOMAIN runtimes = DOMAIN p2p_channels

(***************************************************************************)
(* AgentRegistry properties: what the finds return                         *)
(***************************************************************************)
\* no row occurs twice in the list
NoRepeats(infos) == \A i, j \in DOMAIN infos : i /= j => infos[i].id /= infos[j].id

\* C37: find_by_capability(c) and find_by_type(t) return each agent at most
\* once, and only agents whose current row declares capability c, resp. has
\* type t.
C37_FindsExactRows ==
    RegistryQuiet =>
    /\ \A t \in AgentTypes :
          LET found == find_by_type(type_index, agents, t)
          IN  /\ NoRepeats(found)
              /\ \A i \in DOMAIN found : agents[found[i].id].agent_type = t
    /\ \A c \in Capabilities :
          LET found == find_by_capability(capability_index, agents, c)
          IN  /\ NoRepeats(found)
              /\ \A i \in DOMAIN found : c \in Range(agents[found[i].id].capabilities)

(***************************************************************************)
(* MemoryPool properties: the key listings                                 *)
(***************************************************************************)
\* C38: every key list_global_keys, resp. list_agent_keys(a), returns is
\* retrievable: a get_global, resp. get_agent(a, ..), of it at the same
\* instant returns an entry.
C38_ListedKeysRetrievable ==
    /\ [][(pLast'.op = "list_global_keys" /\ mclock' = mclock)
          => \A key \in listed'.keys :
                GetFiltered(global_memory, key, mclock) /= <<>>]_vars
    /\ [][(pLast'.op = "list_agent_keys" /\ mclock' = mclock)
          => \A key \in listed'.keys :
                GetFiltered(TierOf(agent_memory, listed'.agent), key, mclock) /= <<>>]_vars

(***************************************************************************)
(* AgentRegistry properties: cleanup_dead_agents beside other callers      *)
(***************************************************************************)
\* C34: cleanup_dead_agents never unregisters an agent whose heartbeat was
\* refreshed before the removal (the row it removes is not alive), and every
\* id it returns was removed by this call.
C34_ReaperRemovesOnlyDead ==
    /\ [][(reaper.pc = "unregistering" /\ reaper'.dead /= reaper.dead
              /\ rLast'.op = "cleanup_unregister" /\ rLast'.ok)
          => ~is_alive(agents[rLast'.id], HeartbeatTimeout, now)]_vars
    /\ [][(reaper.pc = "unregistering" /\ reaper'.pc = "idle")
          => rLast'.ids \subseteq reaper.removed]_vars

(***************************************************************************)
(* TaskQueue properties: concurrent dequeue                                *)
(***************************************************************************)
\* the number of times a task is held in the pending bands
PendingCopies(pend, task) ==
    Cardinality({<<p, i>> \in Priorities \X (1..MaxTasks) :
                    i <= Len(pend[p]) /\ pend[p][i] = task})

\* C33: with several callers in dequeue at once, no enqueued task is returned
\* to more than one caller, and a returned task was eligible and pending when
\* it was removed, the removal taking exactly that task out of pending.
C33_ConcurrentDequeue ==
    /\ [](\A i, j \in 1..Len(taken) : taken[i].task.id = taken[j].task.id => i = j)
    /\ [][(taken' /= taken /\ qLast'.op = "dequeue" /\ qLast'.ok)
          => /\ Eligible(qLast'.task)
             /\ PendingCopies(pending, qLast'.task) = 1
             /\ PendingCopies(pending', qLast'.task) = 0
             /\ SumLen(pending', 1) = SumLen(pending, 1) - 1]_vars

\* two callers each got a task, and the second one was waiting for the
\* guards at the moment the first one removed its task
C33_Witness ==
    /\ Len(taken) = 2
    /\ taken[2].caller \in taken[1].waiting
    /\ taken[2].task.id /= taken[1].task.id

(***************************************************************************)
(* MessageBus properties: a send that waits on a full inbox                *)
(***************************************************************************)
\* C31: a point-to-point send that waits on a full inbox keeps no call from
\* the lock of p2p_channels: unless a send that is counting its failure or
\* that has not made its lookup yet holds the lock, the oldest call waiting
\* for it (a register_agent or an unregister_agent, with the sends behind
\* it) can take its step.
C31_WaitingSendBlocksNothing ==
    (/\ blocked /= <<>>
     /\ chan_queue /= <<>>
     /\ \A s \in sending : s.pc \notin {"failed", "granted"})
        => ENABLED GrantWriter

(***************************************************************************)
(* MessageReceiver properties: buffered messages are handed over           *)
(***************************************************************************)
\* a point-to-point message, or a retained broadcast of another agent, is
\* buffered for receiver h
DeliverableBuffered(h) ==
    \/ Len(receivers[h].p2p_rx) > 0
    \/ \E i \in 1..Len(receivers[h].broadcast_rx) :
          receivers[h].broadcast_rx[i].sender_id /= receivers[h].agent_id

\* C36: while a deliverable message is buffered for a receiver, try_recv
\* returns a message, and a pending recv can go on to return one without any
\* further send, also right after a lag and after an own broadcast was
\* filtered out.
C36_BufferedIsDelivered ==
    /\ [][\A h \in 1..Len(receivers) :
             (bLast'.op = "try_recv" /\ bLast'.rcv = h /\ DeliverableBuffered(h))
                => bLast'.ok]_vars
    /\ [](\A h \in 1..Len(receivers) :
             (receivers[h].alive /\ receivers[h].branches /= "both"
                 /\ DeliverableBuffered(h))
                => RecvOutcomes(h) /= {})

(***************************************************************************)
(* Lock properties: no deadlock                                            *)
(***************************************************************************)
\* the order in which each component takes its locks
LockRank ==
    [l \in LockNames |->
        CASE l = "pending" -> 1
          [] l = "in_progress" -> 2
          [] l = "completed" -> 3
          [] l = "failed" -> 4
          [] l = "dependencies" -> 5
          [] l = "capability_index" -> 1
          [] l = "type_index" -> 2
          [] l = "agents" -> 3
          [] l = "global_memory" -> 1
          [] l = "agent_memory" -> 2]

HoldsLock(t, l) == locks[l].writer = t \/ t \in locks[l].readers
WaitsOn(t, l) == \E i \in 1..Len(locks[l].queue) : locks[l].queue[i].thread = t

\* C39: the locks of each component are taken in one order (a thread that
\* waits for a lock holds only locks that come earlier), and every operation
\* that was called eventually returns.
C39_NoDeadlock ==
    /\ [](\A t \in Threads, held, wanted \in LockNames :
             (HoldsLock(t, held) /\ WaitsOn(t, wanted)) => LockRank[held] < LockRank[wanted])
    /\ \A t \in Threads : (threads[t].rest /= <<>>) ~> (threads[t].rest = <<>>)

\* a thread holds one lock and waits for a second one that another thread
\* holds, while a third thread waits for the lock the first one holds
C39_Witness ==
    \E t, u, v \in Threads, held, wanted \in LockNames :
        /\ t /= u /\ u /= v /\ t /= v
        /\ HoldsLock(t, held)
        /\ WaitsOn(t, wanted)
        /\ HoldsLock(u, wanted)
        /\ WaitsOn(v, held)

====
